---- MODULE Spec2Model ----
(***************************************************************************)
(* The keyword classification and aggregation pipeline of the HVAC         *)
(* analysis scripts: BoschDeepAnalyzer (scripts/bosch_deep_analyzer.py)    *)
(* and the deduplication, validation and summary stage of                  *)
(* HVACDataCollector (scripts/data_collector.py).                          *)
(*                                                                         *)
(* A Python str is a sequence of characters; a character is a one-         *)
(* character string, a non-ASCII character being written "uXXXX" after its *)
(* code point.  A dict is a function on its keys.                          *)
(***************************************************************************)
EXTENDS Integers, Sequences, FiniteSets, TLC

\* ------------------------------------------------------------------ bounds

\* The longest record list handed to the collector and to the analyzer.
MaxLen == 2

\* ----------------------------------------------------------- Python values

\* None, where the other values of the field are atomic strings (brand).
NONE == "None"

\* None, where the other values of the field are dicts (metadata).
NoneDict == [None |-> TRUE]

\* None, where the other values of the field are strs (timestamp): a sequence
\* that is no sequence of characters.
NoneStr == <<"None">>

\* {} : the dict without keys.
EmptyDict == << >>

\* str.lower() on the letters it changes: A..Z.
LowerOf ==
    [A |-> "a", B |-> "b", C |-> "c", D |-> "d", E |-> "e", F |-> "f", G |-> "g",
     H |-> "h", I |-> "i", J |-> "j", K |-> "k", L |-> "l", M |-> "m", N |-> "n",
     O |-> "o", P |-> "p", Q |-> "q", R |-> "r", S |-> "s", T |-> "t", U |-> "u",
     V |-> "v", W |-> "w", X |-> "x", Y |-> "y", Z |-> "z"]

\* str.lower() on one character: the letters A..Z map to a..z, every other
\* character of the alphabet used here (digits, punctuation, CJK) is kept.
lower_char(c) == IF c \in DOMAIN LowerOf THEN LowerOf[c] ELSE c

\* str.lower()
lower(s) == [i \in 1..Len(s) |-> lower_char(s[i])]

\* keyword in text : substring containment.
contains(keyword, text) ==
    \E i \in 0..(Len(text) - Len(keyword)) :
        \A j \in 1..Len(keyword) : text[i + j] = keyword[j]

\* text[:n]
prefix(text, n) == SubSeq(text, 1, IF Len(text) < n THEN Len(text) ELSE n)

\* any(keyword in text for keyword in keywords)
any_keyword_in(keywords, text) ==
    \E i \in 1..Len(keywords) : contains(keywords[i], text)

\* dict.get(key, default)
Get(item, key, default) == IF key \in DOMAIN item THEN item[key] ELSE default

\* n copies of the character c.
Rep(c, n) == [i \in 1..n |-> c]

\* The printable ASCII characters in code-point order, from the space on
\* (without the double quote, the backslash and the backquote).
Ascii ==
    <<
      " ","!","#","$","%","&","'","(",")","*","+",",","-",".","/",
      "0","1","2","3","4","5","6","7","8","9",":",";","<","=",">","?",
      "@","A","B","C","D","E","F","G","H","I","J","K","L","M","N","O",
      "P","Q","R","S","T","U","V","W","X","Y","Z","[","]","^","_",
      "a","b","c","d","e","f","g","h","i","j","k","l","m","n","o",
      "p","q","r","s","t","u","v","w","x","y","z","{","|","}","~" >>

\* ord(c), up to a constant: the comparisons of str only need the order.
ord(c) == CHOOSE i \in 1..Len(Ascii) : Ascii[i] = c

\* a < b on strs: lexicographic by code point.
str_less(a, b) ==
    \/ \E i \in 1..(IF Len(a) < Len(b) THEN Len(a) ELSE Len(b)) :
          /\ \A j \in 1..(i - 1) : a[j] = b[j]
          /\ ord(a[i]) < ord(b[i])
    \/ /\ Len(a) < Len(b)
       /\ \A j \in 1..Len(a) : a[j] = b[j]

\* d[k] = d.get(k, 0) + 1
dict_increment(d, k) ==
    IF k \in DOMAIN d THEN [d EXCEPT ![k] = @ + 1] ELSE d @@ (k :> 1)

\* ------------------------------------------------------------------ records

\* DataPoint: one record.  asdict(DataPoint) has the same keys, so the same
\* value serves as the dict the analyzer reads.
DataPoint(source, url, content, data_type, timestamp, brand, sensitivity, metadata) ==
    [source |-> source, url |-> url, content |-> content, data_type |-> data_type,
     timestamp |-> timestamp, brand |-> brand, sensitivity |-> sensitivity,
     metadata |-> metadata]

\* The records the inputs are drawn from.
RecordPool ==
    { \* brand BOSCH, content with the keywords 'launch' and 'new product'
      DataPoint(<<"b","o","s","c","h",".","c","o","m">>, <<"a">>, <<"B","o","s","c","h"," ","l","a","u","n","c","h","e","s"," ","n","e","w"," ","p","r","o","d","u","c","t">>, "product",
                <<"2","0","2","4","-","0","1","-","0","1","T","0","0",":","0","0",":","0","0">>, "BOSCH", "public", NoneDict),
      \* no brand, 'bosch' in the content, no keyword of any bucket
      DataPoint(<<"w","e","b","_","s","e","a","r","c","h">>, <<"b">>, <<"b","o","s","c","h"," ","h","e","a","t"," ","p","u","m","p"," ","b","r","e","a","k","t","h","r","o","u","g","h">>, "news",
                <<"2","0","2","4","-","0","1","-","0","2","T","0","0",":","0","0",":","0","0">>, NONE, "public",
                [collection_method |-> "web_search"]),
      \* another brand, bucket keywords in the content
      DataPoint(<<"t","r","a","n","e",".","c","o","m">>, <<"t">>, <<"T","r","a","n","e"," ","N","e","w"," ","P","r","o","d","u","c","t"," ","l","a","u","n","c","h"," ","p","r","i","c","e">>, "product",
                <<"2","0","2","4","-","0","1","-","2","0","T","1","4",":","0","0",":","0","0">>, "Trane", "public",
                [collection_method |-> "mock"]),
      \* no brand, 'bosch' in the url only (in upper case), empty content
      DataPoint(<<"b","o","s","c","h",".","c","o","m">>, <<"h","t","t","p","s",":","/","/","w","w","w",".","B","o","s","c","h",".","c","o","m","/">>, <<>>, "news",
                <<"2","0","2","4","-","0","1","-","1","5","T","1","0",":","0","0",":","0","0">>, NONE, "public", NoneDict),
      \* confidential, with a sensitive keyword and bucket keywords in upper case
      DataPoint(<<"i","n","t","r","a","n","e","t">>, <<"a">>, <<"I","n","t","e","r","n","a","l"," ","P","A","T","E","N","T"," ","r","i","s","k">>, "technical",
                <<"2","0","2","3","-","1","2","-","3","1","T","2","3",":","5","9",":","5","9">>, "BOSCH", "confidential",
                [collection_method |-> "mock", bosch_priority |-> TRUE]),
      \* no brand, CJK content: brand keyword, sensitive keyword, bucket keyword
      DataPoint(<<"w","e","b","_","s","e","a","r","c","h">>, <<"c">>, <<"u535a","u4e16","u673a","u5bc6","u4e13","u5229">>, "news",
                <<"2","0","2","4","-","0","1","-","1","0","T","0","9",":","0","0",":","0","0">>, NONE, "public",
                [collection_method |-> "web_search", bosch_priority |-> TRUE]),
      \* content longer than a preview, keyword 'launch' after character 100
      DataPoint(<<"b","o","s","c","h",".","c","o","m">>, <<"x">>, Rep("x", 100) \o <<"l","a","u","n","c","h">> \o Rep("y", 100), "product",
                <<"2","0","2","4","-","0","1","-","0","5","T","0","8",":","0","0",":","0","0">>, "BOSCH", "restricted", NoneDict),
      \* same url and same first 100 characters as the record before, no keyword
      DataPoint(<<"b","o","s","c","h",".","c","o","m">>, <<"x">>, Rep("x", 100) \o <<"z">>, "other",
                <<>>, "BOSCH", "public", NoneDict),
      \* empty url, 'bosch' and the keyword 'price' in the content
      DataPoint(<<"D","O","E">>, <<>>, <<"b","o","s","c","h"," ","p","r","i","c","e">>, "policy",
                <<"2","0","2","4","-","0","1","-","0","5","T","0","8",":","0","0",":","0","0">>, NONE, "public", NoneDict) }

\* Lists of at most n records.
Lists(n) == UNION { [1..k -> RecordPool] : k \in 0..n }

\* DataPoint(**d) for a dict d without the fields that have defaults.
as_data_point(d) ==
    DataPoint(d.source, d.url, d.content, d.data_type, d.timestamp,
              Get(d, "brand", NONE), Get(d, "sensitivity", "public"),
              Get(d, "metadata", NoneDict))

\* Records with optional fields absent, None or empty.
SparsePool ==
    { \* no brand, sensitivity and metadata keys; 'bosch' and 'launch' in content
      [source |-> <<"b","o","s","c","h",".","c","o","m">>, url |-> <<"a">>, content |-> <<"B","o","s","c","h"," ","l","a","u","n","c","h">>,
       data_type |-> "product", timestamp |-> <<"2","0","2","4","-","0","1","-","0","1","T","0","0",":","0","0",":","0","0">>],
      \* brand None, timestamp None, metadata.bosch_priority set
      DataPoint(<<"w","e","b","_","s","e","a","r","c","h">>, <<"b">>, <<"B","O","S","C","H"," ","p","r","i","c","e">>, "news",
                NoneStr, NONE, "public", [bosch_priority |-> TRUE]),
      \* another brand, metadata {}
      DataPoint(<<"t","r","a","n","e",".","c","o","m">>, <<"t">>, <<"T","r","a","n","e"," ","l","a","u","n","c","h">>, "product",
                <<"2","0","2","4","-","0","1","-","2","0","T","1","4",":","0","0",":","0","0">>, "Trane", "public", EmptyDict),
      \* brand '', timestamp '', metadata.bosch_priority False
      DataPoint(<<"w","e","b","_","s","e","a","r","c","h">>, <<"c">>, <<"b","o","s","c","h"," ","h","e","a","t"," ","p","u","m","p"," ","b","r","e","a","k","t","h","r","o","u","g","h">>, "news",
                <<>>, "", "public", [bosch_priority |-> FALSE]) }

\* Lists of at most n records of SparsePool.
SparseLists(n) == UNION { [1..k -> SparsePool] : k \in 0..n }

\* ------------------------------------------------------- BoschDeepAnalyzer

\* filter_bosch_data: the brand keywords scanned for in content and url.
bosch_keywords ==
    <<<<"b","o","s","c","h">>, <<"u535a","u4e16">>, <<"b","o","s","c","h"," ","h","v","a","c">>, <<"b","o","s","c","h"," ","h","e","a","t","i","n","g">>,
      <<"b","o","s","c","h"," ","c","l","i","m","a","t","e">>, <<"b","o","s","c","h"," ","t","h","e","r","m","o","t","e","c","h","n","o","l","o","g","y">>>>

\* filter_bosch_item that scans the content only, not the url.
filter_bosch_item_content_only(bosch_data, item) ==
    IF Get(item, "brand", NONE) = "BOSCH"
    THEN Append(bosch_data, item)
    ELSE IF \E i \in 1..Len(bosch_keywords) :
               contains(bosch_keywords[i], lower(Get(item, "content", <<>>)))
         THEN Append(bosch_data, item)
         ELSE bosch_data

\* filter_bosch_item that looks at the brand field only.
filter_bosch_item_brand_only(bosch_data, item) ==
    IF Get(item, "brand", NONE) = "BOSCH"
    THEN Append(bosch_data, item)
    ELSE bosch_data

\* filter_bosch_data: one iteration of the loop over data_points.
filter_bosch_item(bosch_data, item) ==
    IF Get(item, "brand", NONE) = "BOSCH"
    THEN Append(bosch_data, item)
    ELSE LET content == lower(Get(item, "content", <<>>))
             url     == lower(Get(item, "url", <<>>))
         IN  IF \E i \in 1..Len(bosch_keywords) :
                    \/ contains(bosch_keywords[i], content)
                    \/ contains(bosch_keywords[i], url)
             THEN Append(bosch_data, item)
             ELSE bosch_data

RECURSIVE filter_bosch_loop(_, _, _)
filter_bosch_loop(items, i, bosch_data) ==
    IF i > Len(items) THEN bosch_data
    ELSE filter_bosch_loop(items, i + 1, filter_bosch_item(bosch_data, items[i]))

\* filter_bosch_data(self), on self.data_points = items.
filter_bosch_data(items) == filter_bosch_loop(items, 1, << >>)

\* The length of a content preview, content[:200].
PreviewLength == 200

\* The marker appended to every preview.
Ellipsis == <<".",".",".">>

\* The dict appended to a bucket: the url, the timestamp, and under the rule's
\* own key either the lower-cased content or its preview.
bucket_entry(rule, content, url, timestamp) ==
    [k \in {"source", rule.field, "timestamp"} |->
        CASE k = "source"    -> url
          [] k = "timestamp" -> timestamp
          [] OTHER           -> IF rule.full THEN content
                                ELSE prefix(content, PreviewLength) \o Ellipsis]

\* apply_rule with all(...) in place of any(...).
apply_rule_all(analysis, rule, content, url, timestamp) ==
    IF \A i \in 1..Len(rule.keywords) : contains(rule.keywords[i], content)
    THEN [analysis EXCEPT
            ![rule.bucket] = Append(@, bucket_entry(rule, content, url, timestamp))]
    ELSE analysis

\* apply_rule without the keyword test: every record is appended.
apply_rule_always(analysis, rule, content, url, timestamp) ==
    [analysis EXCEPT
        ![rule.bucket] = Append(@, bucket_entry(rule, content, url, timestamp))]

\* apply_rule that inserts at the front of the bucket.
apply_rule_prepend(analysis, rule, content, url, timestamp) ==
    IF any_keyword_in(rule.keywords, content)
    THEN [analysis EXCEPT
            ![rule.bucket] = <<bucket_entry(rule, content, url, timestamp)>> \o @]
    ELSE analysis

\* One `if any(keyword in content ...): bucket.append({...})` of a loop body.
apply_rule(analysis, rule, content, url, timestamp) ==
    IF any_keyword_in(rule.keywords, content)
    THEN [analysis EXCEPT
            ![rule.bucket] = Append(@, bucket_entry(rule, content, url, timestamp))]
    ELSE analysis

RECURSIVE apply_rules(_, _, _, _, _, _)
apply_rules(analysis, rules, k, content, url, timestamp) ==
    IF k > Len(rules) THEN analysis
    ELSE apply_rules(apply_rule(analysis, rules[k], content, url, timestamp),
                     rules, k + 1, content, url, timestamp)

\* analyze_item that scans the content as written, not lower-cased.
analyze_item_case_sensitive(analysis, rules, item) ==
    apply_rules(analysis, rules, 1, Get(item, "content", <<>>),
                Get(item, "url", <<>>), Get(item, "timestamp", NoneStr))

\* The body of `for item in self.bosch_data`: content and url are read once,
\* then every rule is tried in turn.
analyze_item(analysis, rules, item) ==
    apply_rules(analysis, rules, 1, lower(Get(item, "content", <<>>)),
                Get(item, "url", <<>>), Get(item, "timestamp", NoneStr))

RECURSIVE analyze_loop(_, _, _, _)
analyze_loop(analysis, rules, items, i) ==
    IF i > Len(items) THEN analysis
    ELSE analyze_loop(analyze_item(analysis, rules, items[i]), rules, items, i + 1)

\* analyze_topic that leaves out the buckets that stayed empty.
analyze_topic_nonempty(buckets, rules, items) ==
    LET all == analyze_loop([b \in {buckets[n] : n \in 1..Len(buckets)} |-> << >>],
                            rules, items, 1)
    IN  [b \in {x \in DOMAIN all : all[x] # << >>} |-> all[b]]

\* The common shape of the eight analyze_* methods: a dict with every bucket
\* empty, then for each item of bosch_data each rule in turn.
analyze_topic(buckets, rules, items) ==
    analyze_loop([b \in {buckets[n] : n \in 1..Len(buckets)} |-> << >>], rules, items, 1)

\* analyze_product_innovation: the dict literal the analysis starts from (every bucket empty).
product_innovation_buckets ==
    <<"new_product_launches", "technology_advancements", "patent_activity", "rd_investment", "innovation_partnerships", "market_firsts", "product_line_expansion">>
\* analyze_product_innovation: the keyword rules, in the order the loop body tests them.
product_innovation_rules ==
    <<
       [bucket |-> "new_product_launches", field |-> "content", full |-> FALSE,
        keywords |-> <<<<"u65b0","u54c1">>, <<"l","a","u","n","c","h">>, <<"n","e","w"," ","p","r","o","d","u","c","t">>, <<"u53d1","u5e03">>>>],
       [bucket |-> "technology_advancements", field |-> "description", full |-> FALSE,
        keywords |-> <<<<"u6280","u672f">>, <<"t","e","c","h","n","o","l","o","g","y">>, <<"i","n","n","o","v","a","t","i","o","n">>, <<"u521b","u65b0">>>>],
       [bucket |-> "patent_activity", field |-> "details", full |-> FALSE,
        keywords |-> <<<<"p","a","t","e","n","t">>, <<"u4e13","u5229">>, <<"u77e5","u8bc6","u4ea7","u6743">>>>],
       [bucket |-> "rd_investment", field |-> "information", full |-> FALSE,
        keywords |-> <<<<"u7814","u53d1">>, <<"r","d">>, <<"r","e","s","e","a","r","c","h">>, <<"i","n","v","e","s","t","m","e","n","t">>>>]
    >>

\* analyze_market_positioning: the dict literal the analysis starts from (every bucket empty).
market_positioning_buckets ==
    <<"target_segments", "pricing_strategy", "value_proposition", "market_share_data", "competitive_positioning", "brand_perception">>
\* analyze_market_positioning: the keyword rules, in the order the loop body tests them.
market_positioning_rules ==
    <<
       [bucket |-> "target_segments", field |-> "segment", full |-> TRUE,
        keywords |-> <<<<"u9ad8","u7aef">>, <<"p","r","e","m","i","u","m">>, <<"l","u","x","u","r","y">>, <<"c","o","m","m","e","r","c","i","a","l">>, <<"r","e","s","i","d","e","n","t","i","a","l">>>>],
       [bucket |-> "pricing_strategy", field |-> "strategy", full |-> FALSE,
        keywords |-> <<<<"u4ef7","u683c">>, <<"p","r","i","c","e">>, <<"c","o","s","t">>, <<"u5b9a","u4ef7">>>>],
       [bucket |-> "competitive_positioning", field |-> "position", full |-> FALSE,
        keywords |-> <<<<"p","o","s","i","t","i","o","n","i","n","g">>, <<"u5b9a","u4f4d">>, <<"m","a","r","k","e","t">>>>]
    >>

\* analyze_channel_strategy: the dict literal the analysis starts from (every bucket empty).
channel_strategy_buckets ==
    <<"distribution_network", "strategic_partnerships", "direct_sales", "dealer_network", "online_channels", "service_network">>
\* analyze_channel_strategy: the keyword rules, in the order the loop body tests them.
channel_strategy_rules ==
    <<
       [bucket |-> "distribution_network", field |-> "details", full |-> FALSE,
        keywords |-> <<<<"u5206","u9500">>, <<"d","i","s","t","r","i","b","u","t","i","o","n">>, <<"c","h","a","n","n","e","l">>>>],
       [bucket |-> "strategic_partnerships", field |-> "partner", full |-> FALSE,
        keywords |-> <<<<"u5408","u4f5c">>, <<"p","a","r","t","n","e","r","s","h","i","p">>, <<"a","l","l","i","a","n","c","e">>, <<"u4f19","u4f34">>>>],
       [bucket |-> "dealer_network", field |-> "network", full |-> FALSE,
        keywords |-> <<<<"d","e","a","l","e","r">>, <<"u7ecf","u9500","u5546">>, <<"u4ee3","u7406">>>>]
    >>

\* analyze_financial_performance: the dict literal the analysis starts from (every bucket empty).
financial_performance_buckets ==
    <<"revenue_data", "profitability", "market_investment", "acquisition_activity", "funding_rounds", "investor_relations">>
\* analyze_financial_performance: the keyword rules, in the order the loop body tests them.
financial_performance_rules ==
    <<
       [bucket |-> "revenue_data", field |-> "data", full |-> FALSE,
        keywords |-> <<<<"r","e","v","e","n","u","e">>, <<"u6536","u5165">>, <<"s","a","l","e","s">>, <<"u8425","u6536">>>>],
       [bucket |-> "profitability", field |-> "metrics", full |-> FALSE,
        keywords |-> <<<<"p","r","o","f","i","t">>, <<"u5229","u6da6">>, <<"m","a","r","g","i","n">>, <<"u6bdb","u5229","u7387">>>>],
       [bucket |-> "market_investment", field |-> "investment", full |-> FALSE,
        keywords |-> <<<<"i","n","v","e","s","t","m","e","n","t">>, <<"u6295","u8d44">>, <<"e","x","p","a","n","s","i","o","n">>>>]
    >>

\* analyze_technology_advantage: the dict literal the analysis starts from (every bucket empty).
technology_advantage_buckets ==
    <<"core_technologies", "technical_differentiators", "ip_portfolio", "technical_partnerships", "research_facilities", "technology_roadmap">>
\* analyze_technology_advantage: the keyword rules, in the order the loop body tests them.
technology_advantage_rules ==
    <<
       [bucket |-> "core_technologies", field |-> "technology", full |-> FALSE,
        keywords |-> <<<<"u6838","u5fc3","u6280","u672f">>, <<"c","o","r","e"," ","t","e","c","h","n","o","l","o","g","y">>, <<"p","l","a","t","f","o","r","m">>>>],
       [bucket |-> "technical_differentiators", field |-> "differentiator", full |-> FALSE,
        keywords |-> <<<<"d","i","f","f","e","r","e","n","t","i","a","t","i","o","n">>, <<"u5dee","u5f02","u5316">>, <<"a","d","v","a","n","t","a","g","e">>>>],
       [bucket |-> "ip_portfolio", field |-> "portfolio", full |-> FALSE,
        keywords |-> <<<<"i","p">>, <<"i","n","t","e","l","l","e","c","t","u","a","l"," ","p","r","o","p","e","r","t","y">>, <<"u77e5","u8bc6","u4ea7","u6743">>>>]
    >>

\* analyze_competitive_moat: the dict literal the analysis starts from (every bucket empty).
competitive_moat_buckets ==
    <<"brand_strength", "customer_loyalty", "network_effects", "switching_costs", "scale_advantages", "regulatory_barriers">>
\* analyze_competitive_moat: the keyword rules, in the order the loop body tests them.
competitive_moat_rules ==
    <<
       [bucket |-> "brand_strength", field |-> "strength", full |-> FALSE,
        keywords |-> <<<<"b","r","a","n","d">>, <<"u54c1","u724c">>, <<"r","e","p","u","t","a","t","i","o","n">>>>],
       [bucket |-> "customer_loyalty", field |-> "loyalty", full |-> FALSE,
        keywords |-> <<<<"l","o","y","a","l","t","y">>, <<"u5fe0","u8bda">>, <<"c","u","s","t","o","m","e","r">>>>]
    >>

\* analyze_strategic_initiatives: the dict literal the analysis starts from (every bucket empty).
strategic_initiatives_buckets ==
    <<"market_expansion", "product_development", "digital_transformation", "sustainability_initiatives", "strategic_acquisitions", "geographic_expansion">>
\* analyze_strategic_initiatives: the keyword rules, in the order the loop body tests them.
strategic_initiatives_rules ==
    <<
       [bucket |-> "market_expansion", field |-> "initiative", full |-> FALSE,
        keywords |-> <<<<"e","x","p","a","n","s","i","o","n">>, <<"u6269","u5f20">>, <<"g","r","o","w","t","h">>>>],
       [bucket |-> "digital_transformation", field |-> "initiative", full |-> FALSE,
        keywords |-> <<<<"d","i","g","i","t","a","l">>, <<"u6570","u5b57","u5316">>, <<"t","r","a","n","s","f","o","r","m","a","t","i","o","n">>>>],
       [bucket |-> "sustainability_initiatives", field |-> "initiative", full |-> FALSE,
        keywords |-> <<<<"s","u","s","t","a","i","n","a","b","i","l","i","t","y">>, <<"u53ef","u6301","u7eed">>, <<"g","r","e","e","n">>>>]
    >>

\* analyze_risk_factors: the dict literal the analysis starts from (every bucket empty).
risk_factors_buckets ==
    <<"market_risks", "technology_risks", "regulatory_risks", "competitive_risks", "operational_risks", "financial_risks">>
\* analyze_risk_factors: the keyword rules, in the order the loop body tests them.
risk_factors_rules ==
    <<
       [bucket |-> "market_risks", field |-> "risk", full |-> FALSE,
        keywords |-> <<<<"r","i","s","k">>, <<"u98ce","u9669">>, <<"c","h","a","l","l","e","n","g","e">>>>],
       [bucket |-> "regulatory_risks", field |-> "risk", full |-> FALSE,
        keywords |-> <<<<"r","e","g","u","l","a","t","o","r","y">>, <<"u76d1","u7ba1">>, <<"c","o","m","p","l","i","a","n","c","e">>>>]
    >>

analyze_product_innovation(items) ==
    analyze_topic(product_innovation_buckets, product_innovation_rules, items)

analyze_market_positioning(items) ==
    analyze_topic(market_positioning_buckets, market_positioning_rules, items)

analyze_channel_strategy(items) ==
    analyze_topic(channel_strategy_buckets, channel_strategy_rules, items)

analyze_financial_performance(items) ==
    analyze_topic(financial_performance_buckets, financial_performance_rules, items)

analyze_technology_advantage(items) ==
    analyze_topic(technology_advantage_buckets, technology_advantage_rules, items)

analyze_competitive_moat(items) ==
    analyze_topic(competitive_moat_buckets, competitive_moat_rules, items)

analyze_strategic_initiatives(items) ==
    analyze_topic(strategic_initiatives_buckets, strategic_initiatives_rules, items)

analyze_risk_factors(items) ==
    analyze_topic(risk_factors_buckets, risk_factors_rules, items)

\* The fields of BoschAnalysisFocus, in the order run_deep_analysis evaluates
\* the constructor's arguments.
Topics ==
    <<"product_innovation", "market_positioning", "channel_strategy",
      "financial_performance", "technology_advantage", "competitive_moat",
      "strategic_initiatives", "risk_factors">>

\* The keyword rules of the analyze_* method of topic t.
topic_rules(t) ==
    CASE t = "product_innovation" -> product_innovation_rules
      [] t = "market_positioning" -> market_positioning_rules
      [] t = "channel_strategy" -> channel_strategy_rules
      [] t = "financial_performance" -> financial_performance_rules
      [] t = "technology_advantage" -> technology_advantage_rules
      [] t = "competitive_moat" -> competitive_moat_rules
      [] t = "strategic_initiatives" -> strategic_initiatives_rules
      [] t = "risk_factors" -> risk_factors_rules

\* The buckets the analyze_* method of topic t starts from.
topic_buckets(t) ==
    CASE t = "product_innovation" -> product_innovation_buckets
      [] t = "market_positioning" -> market_positioning_buckets
      [] t = "channel_strategy" -> channel_strategy_buckets
      [] t = "financial_performance" -> financial_performance_buckets
      [] t = "technology_advantage" -> technology_advantage_buckets
      [] t = "competitive_moat" -> competitive_moat_buckets
      [] t = "strategic_initiatives" -> strategic_initiatives_buckets
      [] t = "risk_factors" -> risk_factors_buckets

\* The n-th analyze_* call of run_deep_analysis.
analyze(n, items) ==
    CASE n = 1 -> analyze_product_innovation(items)
      [] n = 2 -> analyze_market_positioning(items)
      [] n = 3 -> analyze_channel_strategy(items)
      [] n = 4 -> analyze_financial_performance(items)
      [] n = 5 -> analyze_technology_advantage(items)
      [] n = 6 -> analyze_competitive_moat(items)
      [] n = 7 -> analyze_strategic_initiatives(items)
      [] n = 8 -> analyze_risk_factors(items)

\* BoschAnalysisFocus(...): the dataclass instance, from the eight results.
BoschAnalysisFocus(results) ==
    [t \in {Topics[n] : n \in 1..Len(Topics)} |->
        results[CHOOSE n \in 1..Len(Topics) : Topics[n] = t]]

\* run_deep_analysis(self): the value assigned to self.analysis_result.
run_deep_analysis(items) ==
    BoschAnalysisFocus([n \in 1..Len(Topics) |-> analyze(n, items)])

\* generate_summary that returns the buckets themselves, not their lengths.
generate_summary_contents(analysis, bosch_data) ==
    IF analysis = NoneDict THEN EmptyDict
    ELSE [total_data_points |-> Len(bosch_data), analysis_dimensions |-> analysis]

\* generate_summary(self)
generate_summary(analysis, bosch_data) ==
    IF analysis = NoneDict THEN EmptyDict
    ELSE
    [total_data_points |-> Len(bosch_data),
     analysis_dimensions |->
       [product_innovation |->
          [new_products |-> Len(analysis.product_innovation["new_product_launches"]),
           tech_advancements |-> Len(analysis.product_innovation["technology_advancements"]),
           patents |-> Len(analysis.product_innovation["patent_activity"])],
        market_positioning |->
          [segments |-> Len(analysis.market_positioning["target_segments"]),
           positioning |-> Len(analysis.market_positioning["competitive_positioning"])],
        channel_strategy |->
          [partnerships |-> Len(analysis.channel_strategy["strategic_partnerships"]),
           distribution |-> Len(analysis.channel_strategy["distribution_network"])],
        financial_performance |->
          [revenue_data |-> Len(analysis.financial_performance["revenue_data"]),
           investments |-> Len(analysis.financial_performance["market_investment"])],
        technology_advantage |->
          [core_tech |-> Len(analysis.technology_advantage["core_technologies"]),
           differentiators |-> Len(analysis.technology_advantage["technical_differentiators"])],
        competitive_moat |->
          [brand_strength |-> Len(analysis.competitive_moat["brand_strength"]),
           loyalty |-> Len(analysis.competitive_moat["customer_loyalty"])],
        strategic_initiatives |->
          [expansion |-> Len(analysis.strategic_initiatives["market_expansion"]),
           digital |-> Len(analysis.strategic_initiatives["digital_transformation"])],
        risk_factors |->
          [market_risks |-> Len(analysis.risk_factors["market_risks"]),
           regulatory_risks |-> Len(analysis.risk_factors["regulatory_risks"])]]]

\* ------------------------------------------------------- HVACDataCollector
\* The collector's lists hold references to DataPoint objects: a list is a
\* sequence of indices into the heap `objs`, so that an assignment to a field
\* of an item is seen through every list that holds the item.

\* The number of leading characters of the content that enter the key.
DedupKeyLength == 100

\* dedup_key without the content.
dedup_key_url_only(item) == <<item.url>>

\* deduplicate_data: the key of an item.
dedup_key(item) == <<item.url, prefix(item.content, DedupKeyLength)>>

RECURSIVE deduplicate_loop(_, _, _, _, _)
deduplicate_loop(data, heap, i, seen, unique_data) ==
    IF i > Len(data) THEN unique_data
    ELSE LET key == dedup_key(heap[data[i]])
         IN  IF key \notin seen
             THEN deduplicate_loop(data, heap, i + 1, seen \cup {key},
                                   Append(unique_data, data[i]))
             ELSE deduplicate_loop(data, heap, i + 1, seen, unique_data)

\* deduplicate_data that returns its input.
deduplicate_data_none(data, heap) == data

\* deduplicate_data that returns the retained items newest first.
deduplicate_data_newest_first(data, heap) ==
    LET unique_data == deduplicate_loop(data, heap, 1, {}, << >>)
    IN  [i \in 1..Len(unique_data) |-> unique_data[Len(unique_data) + 1 - i]]

\* deduplicate_data(self, data)
deduplicate_data(data, heap) == deduplicate_loop(data, heap, 1, {}, << >>)

\* validate_data: the keywords that mark a content as sensitive.
sensitive_keywords ==
    <<<<"u","n","r","e","l","e","a","s","e","d">>, <<"c","o","n","f","i","d","e","n","t","i","a","l">>, <<"i","n","t","e","r","n","a","l">>, <<"u672a","u53d1","u5e03">>, <<"u673a","u5bc6">>>>

\* validate_item that skips an item only when url and content are both empty.
validate_item_both_empty(st, ref) ==
    LET item == st.heap[ref]
    IN  IF item.url = <<>> /\ item.content = <<>>
        THEN st
        ELSE IF any_keyword_in(sensitive_keywords, lower(item.content))
             THEN [valid_data |-> Append(st.valid_data, ref),
                   heap |-> [st.heap EXCEPT ![ref].sensitivity = "restricted"]]
             ELSE [st EXCEPT !.valid_data = Append(@, ref)]

\* validate_data: one iteration; st = [valid_data, heap].
validate_item(st, ref) ==
    LET item == st.heap[ref]
    IN  IF item.url = <<>> \/ item.content = <<>>
        THEN st
        ELSE IF any_keyword_in(sensitive_keywords, lower(item.content))
             THEN [valid_data |-> Append(st.valid_data, ref),
                   heap |-> [st.heap EXCEPT ![ref].sensitivity = "restricted"]]
             ELSE [st EXCEPT !.valid_data = Append(@, ref)]

RECURSIVE validate_loop(_, _, _)
validate_loop(data, i, st) ==
    IF i > Len(data) THEN st
    ELSE validate_loop(data, i + 1, validate_item(st, data[i]))

\* validate_data(self, data): the list returned and the heap it leaves.
validate_data(data, heap) ==
    validate_loop(data, 1, [valid_data |-> << >>, heap |-> heap])

\* `not x` for an optional str.
falsy_str(x) == x = NoneStr \/ x = <<>>

\* What a call that raised TypeError leaves in place of its result.
TypeError == [raised |-> "TypeError"]

\* `not bound or timestamp < bound` raises: the bound is a non-empty str, so
\* the comparison is made, and the timestamp is None.
compare_raises(timestamp, bound) == ~ falsy_str(bound) /\ timestamp = NoneStr

\* summary_item with one increment of bosch_data_points per condition met.
summary_item_double(summary, item) ==
    LET s1 == IF item.brand # NONE /\ item.brand # ""
              THEN [summary EXCEPT !.by_brand = dict_increment(@, item.brand)]
              ELSE summary
        s2 == [s1 EXCEPT !.by_data_type = dict_increment(@, item.data_type)]
        s3 == [s2 EXCEPT !.by_sensitivity = dict_increment(@, item.sensitivity)]
        s3b == IF item.brand = "BOSCH"
               THEN [s3 EXCEPT !.bosch_data_points = @ + 1]
               ELSE s3
        s4 == IF /\ item.metadata # NoneDict
                 /\ DOMAIN item.metadata # {}
                 /\ Get(item.metadata, "bosch_priority", FALSE) = TRUE
              THEN [s3b EXCEPT !.bosch_data_points = @ + 1]
              ELSE s3b
        s5 == IF \/ falsy_str(s4.time_range.earliest)
                 \/ str_less(item.timestamp, s4.time_range.earliest)
              THEN [s4 EXCEPT !.time_range.earliest = item.timestamp]
              ELSE s4
    IN  IF compare_raises(item.timestamp, s4.time_range.earliest)
        THEN TypeError
        ELSE IF compare_raises(item.timestamp, s5.time_range.latest)
        THEN TypeError
        ELSE IF \/ falsy_str(s5.time_range.latest)
                \/ str_less(s5.time_range.latest, item.timestamp)
             THEN [s5 EXCEPT !.time_range.latest = item.timestamp]
             ELSE s5

\* summary_item that counts a record under its brand whatever the brand is.
summary_item_any_brand(summary, item) ==
    LET s1 == [summary EXCEPT !.by_brand = dict_increment(@, item.brand)]
        s2 == [s1 EXCEPT !.by_data_type = dict_increment(@, item.data_type)]
        s3 == [s2 EXCEPT !.by_sensitivity = dict_increment(@, item.sensitivity)]
        s4 == IF \/ item.brand = "BOSCH"
                 \/ /\ item.metadata # NoneDict
                    /\ DOMAIN item.metadata # {}
                    /\ Get(item.metadata, "bosch_priority", FALSE) = TRUE
              THEN [s3 EXCEPT !.bosch_data_points = @ + 1]
              ELSE s3
        s5 == IF \/ falsy_str(s4.time_range.earliest)
                 \/ str_less(item.timestamp, s4.time_range.earliest)
              THEN [s4 EXCEPT !.time_range.earliest = item.timestamp]
              ELSE s4
    IN  IF compare_raises(item.timestamp, s4.time_range.earliest)
        THEN TypeError
        ELSE IF compare_raises(item.timestamp, s5.time_range.latest)
        THEN TypeError
        ELSE IF \/ falsy_str(s5.time_range.latest)
                \/ str_less(s5.time_range.latest, item.timestamp)
             THEN [s5 EXCEPT !.time_range.latest = item.timestamp]
             ELSE s5

\* get_data_summary: one iteration of the loop over collected_data.
summary_item(summary, item) ==
    LET s1 == IF item.brand # NONE /\ item.brand # ""
              THEN [summary EXCEPT !.by_brand = dict_increment(@, item.brand)]
              ELSE summary
        s2 == [s1 EXCEPT !.by_data_type = dict_increment(@, item.data_type)]
        s3 == [s2 EXCEPT !.by_sensitivity = dict_increment(@, item.sensitivity)]
        s4 == IF \/ item.brand = "BOSCH"
                 \/ /\ item.metadata # NoneDict
                    /\ DOMAIN item.metadata # {}
                    /\ Get(item.metadata, "bosch_priority", FALSE) = TRUE
              THEN [s3 EXCEPT !.bosch_data_points = @ + 1]
              ELSE s3
        s5 == IF \/ falsy_str(s4.time_range.earliest)
                 \/ str_less(item.timestamp, s4.time_range.earliest)
              THEN [s4 EXCEPT !.time_range.earliest = item.timestamp]
              ELSE s4
    IN  IF compare_raises(item.timestamp, s4.time_range.earliest)
        THEN TypeError
        ELSE IF compare_raises(item.timestamp, s5.time_range.latest)
        THEN TypeError
        ELSE IF \/ falsy_str(s5.time_range.latest)
                \/ str_less(s5.time_range.latest, item.timestamp)
             THEN [s5 EXCEPT !.time_range.latest = item.timestamp]
             ELSE s5

RECURSIVE summary_loop(_, _, _, _)
summary_loop(data, heap, i, summary) ==
    IF i > Len(data) \/ summary = TypeError THEN summary
    ELSE summary_loop(data, heap, i + 1, summary_item(summary, heap[data[i]]))

\* get_data_summary(self), on self.collected_data = data.
get_data_summary(data, heap) ==
    IF data = << >> THEN EmptyDict
    ELSE summary_loop(data, heap, 1,
            [total_data_points |-> Len(data),
             by_brand |-> EmptyDict, by_data_type |-> EmptyDict,
             by_sensitivity |-> EmptyDict, bosch_data_points |-> 0,
             time_range |-> [earliest |-> NoneStr, latest |-> NoneStr]])

\* ------------------------------------------------------- DataSourceManager
\* A data source is a dict; `description` and `update_frequency`, which no
\* method reads after the dict is built, are left out.  last_checked holds the
\* reading of the clock at the time of the call.  A brand is a str, or None
\* (NoneStr).

\* A source of the default configuration without a brand key.
Source(name, url, priority, category, now) ==
    [name |-> name, url |-> url, priority |-> priority, enabled |-> TRUE,
     category |-> category, last_checked |-> now]

\* A brand source of the default configuration.
BrandSource(name, brand, url, now) ==
    [name |-> name, url |-> url, priority |-> 1, enabled |-> TRUE,
     category |-> "brand", brand |-> brand, last_checked |-> now]

\* create_default_config(self)['data_sources']
create_default_config(now) ==
    << Source("DOE", <<"h","t","t","p","s",":","/","/","w","w","w",".","e","n","e","r","g","y",".","g","o","v","/">>, 1, "government", now),
       Source("AHRI", <<"h","t","t","p","s",":","/","/","w","w","w",".","a","h","r","i","n","e","t",".","o","r","g","/">>, 1, "industry", now),
       Source("EPC", <<"h","t","t","p","s",":","/","/","w","w","w",".","e","p","a",".","g","o","v","/">>, 2, "government", now),
       Source("ACCA", <<"h","t","t","p","s",":","/","/","w","w","w",".","a","c","c","a",".","o","r","g","/">>, 2, "industry", now),
       Source("CEE", <<"h","t","t","p","s",":","/","/","w","w","w",".","e","n","e","r","g","y","e","f","f","i","c","i","e","n","c","y","a","l","l","i","a","n","c","e",".","o","r","g","/">>, 2, "industry", now),
       BrandSource("Carrier", <<"C","a","r","r","i","e","r">>, <<"h","t","t","p","s",":","/","/","w","w","w",".","c","a","r","r","i","e","r",".","c","o","m","/">>, now),
       BrandSource("Trane", <<"T","r","a","n","e">>, <<"h","t","t","p","s",":","/","/","w","w","w",".","t","r","a","n","e",".","c","o","m","/">>, now),
       [name |-> "BOSCH", url |-> <<"h","t","t","p","s",":","/","/","w","w","w",".","b","o","s","c","h",".","c","o","m","/">>, priority |-> 1,
        enabled |-> TRUE, category |-> "brand", brand |-> <<"B","O","S","C","H">>,
        last_checked |-> now, special_analysis |-> TRUE],
       BrandSource("Lennox", <<"L","e","n","n","o","x">>, <<"h","t","t","p","s",":","/","/","w","w","w",".","l","e","n","n","o","x",".","c","o","m","/">>, now),
       BrandSource("Goodman", <<"G","o","o","d","m","a","n">>, <<"h","t","t","p","s",":","/","/","w","w","w",".","g","o","o","d","m","a","n","m","f","g",".","c","o","m","/">>, now),
       BrandSource("Daikin", <<"D","a","i","k","i","n">>, <<"h","t","t","p","s",":","/","/","w","w","w",".","d","a","i","k","i","n",".","c","o","m","/">>, now),
       Source("State_Incentives", <<"h","t","t","p","s",":","/","/","w","w","w",".","d","s","i","r","e","u","s","a",".","o","r","g","/">>, 2, "policy", now),
       Source("HVAC_News", <<"h","t","t","p","s",":","/","/","w","w","w",".","a","c","h","r","n","e","w","s",".","c","o","m","/">>, 3, "news", now) >>

\* Some source of the list has the name.
has_source(data_sources, name) ==
    \E i \in 1..Len(data_sources) : data_sources[i].name = name

\* The position of the first source with the name.
first_source(data_sources, name) ==
    CHOOSE i \in 1..Len(data_sources) :
        /\ data_sources[i].name = name
        /\ \A j \in 1..(i - 1) : data_sources[j].name # name

\* The outcome of a method of the manager: the list it leaves, whether it
\* called save_config, and what it returned.
Outcome(data_sources, saved, returned) ==
    [data_sources |-> data_sources, saved |-> saved, returned |-> returned]

\* add_data_source that appends without looking for the name.
add_data_source_unchecked(data_sources, name, url, priority, category, brand, now) ==
    Outcome(Append(data_sources,
                   [name |-> name, url |-> url, priority |-> priority,
                    enabled |-> TRUE, category |-> category, brand |-> brand,
                    last_checked |-> now]),
            TRUE, TRUE)

\* add_data_source(self, name, url, description, priority, category, brand)
add_data_source(data_sources, name, url, priority, category, brand, now) ==
    LET new_source == [name |-> name, url |-> url, priority |-> priority,
                       enabled |-> TRUE, category |-> category, brand |-> brand,
                       last_checked |-> now]
    IN  IF has_source(data_sources, name)
        THEN Outcome(data_sources, FALSE, FALSE)
        ELSE Outcome(Append(data_sources, new_source), TRUE, TRUE)

\* remove_data_source(self, name)
remove_data_source(data_sources, name) ==
    LET other(source) == source.name # name
        kept == SelectSeq(data_sources, other)
    IN  IF Len(kept) < Len(data_sources)
        THEN Outcome(kept, TRUE, TRUE)
        ELSE Outcome(kept, FALSE, FALSE)

\* toggle_data_source(self, name, enabled)
toggle_data_source(data_sources, name, enabled) ==
    IF has_source(data_sources, name)
    THEN Outcome([data_sources EXCEPT
                    ![first_source(data_sources, name)].enabled = enabled],
                 TRUE, TRUE)
    ELSE Outcome(data_sources, FALSE, FALSE)

\* update_last_checked(self, name)
update_last_checked(data_sources, name, now) ==
    IF has_source(data_sources, name)
    THEN Outcome([data_sources EXCEPT
                    ![first_source(data_sources, name)].last_checked = now],
                 TRUE, TRUE)
    ELSE Outcome(data_sources, FALSE, FALSE)

\* get_brand_sources(self, brand)
get_brand_sources(data_sources, brand) ==
    LET wanted(source) ==
            Get(source, "brand", NoneStr) = brand \/ source.category = "brand"
    IN  SelectSeq(data_sources, wanted)

\* -------------------------------------------------- HVACFrameworkCollector

\* str.strip(): the text without its leading and trailing blanks.
strip(text) ==
    LET inked == {i \in 1..Len(text) : text[i] # " "}
    IN  IF inked = {} THEN <<>>
        ELSE SubSeq(text, CHOOSE i \in inked : \A j \in inked : i <= j,
                          CHOOSE i \in inked : \A j \in inked : j <= i)

RECURSIVE split_loop(_, _, _, _)
split_loop(text, i, part, parts) ==
    IF i > Len(text) THEN Append(parts, part)
    ELSE IF text[i] = ","
         THEN split_loop(text, i + 1, <<>>, Append(parts, part))
         ELSE split_loop(text, i + 1, Append(part, text[i]), parts)

\* str.split(",")
split(text) == split_loop(text, 1, <<>>, << >>)

\* HVACFrameworkCollector.__init__: self.config (with the fields that
\* collect_target_brands, collect_geographic_scope and the data collector use).
framework_config ==
    [target_brands |-> << >>, bosch_priority |-> FALSE,
     geographic_scope |-> <<"n","a","t","i","o","n","a","l">>]

\* collect_target_brands: all_brands
all_brands ==
    [c \in {<<"1">>, <<"2">>, <<"3">>, <<"4">>, <<"5">>} |->
        CASE c = <<"1">> -> <<"C","a","r","r","i","e","r">>
          [] c = <<"2">> -> <<"T","r","a","n","e">>
          [] c = <<"3">> -> <<"B","O","S","C","H">>
          [] c = <<"4">> -> <<"L","e","n","n","o","x">>
          [] c = <<"5">> -> <<"G","o","o","d","m","a","n","/","D","a","i","k","i","n">>]

RECURSIVE selected_brands(_, _, _)
selected_brands(choices, i, selected) ==
    IF i > Len(choices) THEN selected
    ELSE selected_brands(choices, i + 1,
                         IF strip(choices[i]) \in DOMAIN all_brands
                         THEN Append(selected, all_brands[strip(choices[i])])
                         ELSE selected)

\* collect_target_brands, one turn of its loop on the input `choices`: the
\* configuration it leaves and whether it returned (or asks again).
collect_target_brands(config, choices) ==
    LET selected == selected_brands(split(strip(choices)), 1, << >>)
    IN  IF selected = << >> THEN [config |-> config, accepted |-> FALSE]
        ELSE [config |-> [config EXCEPT
                            !.target_brands = selected,
                            !.bosch_priority =
                                IF \E i \in 1..Len(selected) : selected[i] = <<"B","O","S","C","H">>
                                THEN TRUE ELSE @],
              accepted |-> TRUE]

\* collect_geographic_scope: options
scope_options ==
    [c \in {<<"1">>, <<"2">>, <<"3">>, <<"4">>, <<"5">>} |->
        CASE c = <<"1">> -> <<"u5168","u56fd","u8303","u56f4">>
          [] c = <<"2">> -> <<"u4e1c","u90e8","u5404","u5dde">>
          [] c = <<"3">> -> <<"u5357","u90e8","u5404","u5dde">>
          [] c = <<"4">> -> <<"u897f","u90e8","u5404","u5dde">>
          [] c = <<"5">> -> <<"u81ea","u5b9a","u4e49","u5dde","/","u533a","u57df">>]

\* collect_geographic_scope, one turn of its loop on the input `choice` (and,
\* for option 5, the input `custom_scope`).
collect_geographic_scope(config, choice, custom_scope) ==
    IF strip(choice) \in DOMAIN scope_options
    THEN [config |-> [config EXCEPT
                        !.geographic_scope =
                            IF strip(choice) = <<"5">>
                            THEN scope_options[strip(choice)] \o <<" ","(">>
                                     \o strip(custom_scope) \o <<")">>
                            ELSE scope_options[strip(choice)]],
          accepted |-> TRUE]
    ELSE [config |-> config, accepted |-> FALSE]

\* run_collection: confirm = input(...).strip().lower(); confirm == 'yes'
confirmed(answer) == lower(strip(answer)) = <<"y","e","s">>

\* ------------------------------------------- HVACDataCollector: collection

\* datetime.now().isoformat() at the reading `now` of the clock.
isoformat(now) ==
    <<"2","0","2","4","-","0","6","-","0","1","T","1","2",":","0","0",":","0">> \o << Ascii[ord("0") + now] >>

\* extract_brand_from_url: brand_patterns, in the order of the dict.
brand_patterns ==
    << <<<<"c","a","r","r","i","e","r">>, "Carrier">>, <<<<"t","r","a","n","e">>, "Trane">>, <<<<"b","o","s","c","h">>, "BOSCH">>,
       <<<<"l","e","n","n","o","x">>, "Lennox">>, <<<<"g","o","o","d","m","a","n">>, "Goodman">>, <<<<"d","a","i","k","i","n">>, "Daikin">> >>

\* extract_brand_from_url(self, url)
extract_brand_from_url(url) ==
    LET hits == {i \in 1..Len(brand_patterns) :
                    contains(brand_patterns[i][1], lower(url))}
    IN  IF hits = {} THEN NONE
        ELSE brand_patterns[CHOOSE i \in hits : \A j \in hits : i <= j][2]

\* extract_brand_from_query: brand_keywords, in the order of the dict.
brand_keywords ==
    << <<"Carrier", <<<<"c","a","r","r","i","e","r">>, <<"c","a","r","r","i","e","r"," ","h","v","a","c">>, <<"c","a","r","r","i","e","r"," ","h","e","a","t","i","n","g">>>> >>,
       <<"Trane", <<<<"t","r","a","n","e">>, <<"t","r","a","n","e"," ","h","v","a","c">>, <<"t","r","a","n","e"," ","h","e","a","t","i","n","g">>>> >>,
       <<"BOSCH", <<<<"b","o","s","c","h">>, <<"b","o","s","c","h"," ","h","v","a","c">>, <<"b","o","s","c","h"," ","h","e","a","t","i","n","g">>>> >>,
       <<"Lennox", <<<<"l","e","n","n","o","x">>, <<"l","e","n","n","o","x"," ","h","v","a","c">>, <<"l","e","n","n","o","x"," ","h","e","a","t","i","n","g">>>> >>,
       <<"Goodman", <<<<"g","o","o","d","m","a","n">>, <<"g","o","o","d","m","a","n"," ","h","v","a","c">>, <<"g","o","o","d","m","a","n"," ","h","e","a","t","i","n","g">>>> >>,
       <<"Daikin", <<<<"d","a","i","k","i","n">>, <<"d","a","i","k","i","n"," ","h","v","a","c">>, <<"d","a","i","k","i","n"," ","h","e","a","t","i","n","g">>>> >> >>

\* extract_brand_from_query(self, query)
extract_brand_from_query(query) ==
    LET hits == {i \in 1..Len(brand_keywords) :
                    any_keyword_in(brand_keywords[i][2], lower(query))}
    IN  IF hits = {} THEN NONE
        ELSE brand_keywords[CHOOSE i \in hits : \A j \in hits : i <= j][1]

\* The keywords argument of collect_from_firecrawl: None, or a list.
NoKeywords == [given |-> FALSE]

Keywords(list) == [given |-> TRUE, list |-> list]

\* collect_from_firecrawl: `keywords and any(keyword.lower() in url.lower() ...)`
firecrawl_match(url, keywords) ==
    /\ keywords.given
    /\ keywords.list # << >>
    /\ \E i \in 1..Len(keywords.list) :
          contains(lower(keywords.list[i]), lower(url))

\* collect_from_firecrawl that keeps every url when no keywords are given.
firecrawl_item_unfiltered(data_points_, url, keywords, now) ==
    IF ~ keywords.given \/ firecrawl_match(url, keywords)
    THEN Append(data_points_,
                DataPoint(url, url, <<"u4ece"," ">> \o url \o <<" ","u6536","u96c6","u7684","u5185","u5bb9",".",".",".">>, "news",
                          isoformat(now), extract_brand_from_url(url), "public",
                          [collection_method |-> "firecrawl"]))
    ELSE data_points_

\* collect_from_firecrawl: one iteration of the loop over urls.
firecrawl_item(data_points_, url, keywords, now) ==
    IF firecrawl_match(url, keywords)
    THEN Append(data_points_,
                DataPoint(url, url, <<"u4ece"," ">> \o url \o <<" ","u6536","u96c6","u7684","u5185","u5bb9",".",".",".">>, "news",
                          isoformat(now), extract_brand_from_url(url), "public",
                          [collection_method |-> "firecrawl"]))
    ELSE data_points_

RECURSIVE firecrawl_loop(_, _, _, _, _)
firecrawl_loop(urls, i, keywords, now, data_points_) ==
    IF i > Len(urls) THEN data_points_
    ELSE firecrawl_loop(urls, i + 1, keywords, now,
                        firecrawl_item(data_points_, urls[i], keywords, now))

\* collect_from_firecrawl(self, urls, keywords)
collect_from_firecrawl(urls, keywords, now) ==
    firecrawl_loop(urls, 1, keywords, now, << >>)

\* collect_from_web_search: the DataPoint of one query.
search_result(query, now) ==
    DataPoint(<<"w","e","b","_","s","e","a","r","c","h">>, <<"h","t","t","p","s",":","/","/","e","x","a","m","p","l","e",".","c","o","m","/","r","e","s","u","l","t","1">>,
              <<"u641c","u7d22","u7ed3","u679c"," ","f","o","r"," ">> \o query \o <<":"," ","u5173","u4e8e"," ">> \o query \o <<" ","u7684","u4fe1","u606f",".",".",".">>,
              "news", isoformat(now), extract_brand_from_query(query), "public",
              [collection_method |-> "web_search", query |-> query,
               title |-> <<"u641c","u7d22","u7ed3","u679c"," ","f","o","r"," ">> \o query])

\* collect_from_web_search(self, queries)
collect_from_web_search(queries, now) ==
    [i \in 1..Len(queries) |-> search_result(queries[i], now)]

\* collect_brand_data: queries
brand_queries(brand) ==
    << brand \o <<" ","H","V","A","C"," ","u65b0","u54c1","u53d1","u5e03"," ","2","0","2","4">>, brand \o <<" ","u4ea7","u54c1","u53ec","u56de"," ","2","0","2","4">>,
       brand \o <<" ","u6280","u672f","u521b","u65b0"," ","H","V","A","C">>, brand \o <<" ","u5e02","u573a","u7b56","u7565"," ","u5317","u7f8e">> >>

\* collect_brand_data: metadata['bosch_priority'] = True; ['deep_analysis'] = True
mark_bosch(item) ==
    [item EXCEPT !.metadata =
        [k \in DOMAIN @ \cup {"bosch_priority", "deep_analysis"} |->
            IF k \in {"bosch_priority", "deep_analysis"} THEN TRUE ELSE @[k]]]

\* collect_brand_data(self, brand), on the sources of the manager
collect_brand_data(sources, brand, now) ==
    LET brand_sources == get_brand_sources(sources, brand)
        urls == [i \in 1..Len(brand_sources) |-> brand_sources[i].url]
        all == collect_from_firecrawl(urls, NoKeywords, now)
                  \o collect_from_web_search(brand_queries(brand), now)
    IN  IF brand = <<"B","O","S","C","H">>
        THEN [i \in 1..Len(all) |-> mark_bosch(all[i])]
        ELSE all

\* collect_policy_data(self)
collect_policy_data(now) ==
    collect_from_web_search(
        << <<"D","O","E"," ","H","V","A","C"," ","u80fd","u6548","u6807","u51c6"," ","2","0","2","4">>, <<"A","H","R","I"," ","H","V","A","C"," ","u8ba4","u8bc1"," ","u6807","u51c6">>, <<"u5dde","u7ea7"," ","u7a7a","u8c03"," ","u6fc0","u52b1","u653f","u7b56"," ","u9000","u7a0e">>,
           <<"E","P","A"," ","u73af","u4fdd","u653f","u7b56"," ","H","V","A","C">>, <<"u5efa","u7b51","u80fd","u6548","u6807","u51c6"," ","H","V","A","C">> >>, now)

\* collect_recall_data(self)
collect_recall_data(now) ==
    collect_from_web_search(
        << <<"H","V","A","C"," ","u4ea7","u54c1","u53ec","u56de"," ","2","0","2","4">>, <<"u7a7a","u8c03"," ","u53ec","u56de"," ","u5b89","u5168"," ","u901a","u544a">>, <<"C","a","r","r","i","e","r"," ","u53ec","u56de"," ","2","0","2","4">>,
           <<"T","r","a","n","e"," ","u53ec","u56de"," ","2","0","2","4">>, <<"B","O","S","C","H"," ","u53ec","u56de"," ","2","0","2","4">>, <<"L","e","n","n","o","x"," ","u53ec","u56de"," ","2","0","2","4">>,
           <<"G","o","o","d","m","a","n"," ","u53ec","u56de"," ","2","0","2","4">>, <<"D","a","i","k","i","n"," ","u53ec","u56de"," ","2","0","2","4">> >>, now)

\* collect_regional_data(self, region)
collect_regional_data(region, now) ==
    collect_from_web_search(
        << region \o <<" ","u7a7a","u8c03"," ","u6fc0","u52b1","u653f","u7b56">>, region \o <<" ","H","V","A","C"," ","u5e02","u573a"," ","u9500","u552e","u6570","u636e">>,
           region \o <<" ","u5efa","u7b51","u80fd","u6548"," ","u6807","u51c6">> >>, now)

\* ------------------------------------------------------------------- state

\* The BoschDeepAnalyzer instances; all are built over the same data_points.
Analyzers == {1, 2}

\* The value of a variable that holds the result of a call not made yet.
NotCalled == [not_called |-> TRUE]

VARIABLES
    data_points,      \* the record list handed to the analyzers and the collector
    objs,             \* the collector's DataPoint objects (the heap)
    all_data,         \* run_collection: the local list all_data
    collected_data,   \* HVACDataCollector.collected_data
    c_pc,             \* run_collection: where the collector stands
    data_summary,     \* what get_data_summary returned last
    a_pc,             \* per analyzer: "absent" until constructed, then "idle"
    bosch_data,       \* per analyzer: self.bosch_data
    analysis_result,  \* per analyzer: self.analysis_result
    summary,          \* per analyzer: what generate_summary returned last
    analysis_file,    \* the file save_analysis writes
    data_sources,     \* DataSourceManager.config['data_sources']
    sources_file,     \* the file save_config of the manager writes
    returned,         \* what the last call of a method of the manager returned
    clock,            \* the last reading of datetime.now() stored in a source
    f_config,         \* HVACFrameworkCollector.config
    f_pc,             \* HVACFrameworkCollector.run_collection: where it stands
    rounds,           \* the number of configuration rounds the user rejected
    config_file,      \* the file analysis_config.json
    config,           \* HVACDataCollector.config
    calls,            \* the collect_* calls run_collection has made, in order
    built,            \* per analyzer: the objects its run_deep_analysis call built
    runs              \* the number of run_deep_analysis calls begun

collector_vars == <<objs, all_data, collected_data, c_pc, data_summary>>

analyzer_vars == <<a_pc, bosch_data, analysis_result, summary, analysis_file>>

manager_vars == <<data_sources, sources_file, returned, clock>>

\* The state of the components other than the collector's de-duplication,
\* validation and summary and the analyzers.
framework_vars == <<f_config, f_pc, rounds, config_file>>

run_vars == <<config, calls>>

interleave_vars == <<built, runs>>

other_vars == <<manager_vars, framework_vars, run_vars, interleave_vars>>

vars == <<data_points, collector_vars, analyzer_vars, other_vars>>

\* A file that does not exist.
NoFile == [exists |-> FALSE]

\* No DataSourceManager has been constructed.
ManagerAbsent ==
    /\ data_sources = << >>
    /\ sources_file = NoFile
    /\ returned = NotCalled
    /\ clock = 0

\* No HVACFrameworkCollector has been constructed and no configuration file
\* written.
FrameworkAbsent ==
    /\ f_config = EmptyDict
    /\ f_pc = "absent"
    /\ rounds = 0
    /\ config_file = NoFile

\* The frame of a run_deep_analysis call: the number of the call and the
\* results of the analyze_* calls it has made.
Frame(run, topics) == [run |-> run, topics |-> topics]

\* No run_deep_analysis call is followed step by step.
NoRuns ==
    /\ built = [a \in Analyzers |-> Frame(0, << >>)]
    /\ runs = 0

\* run_collection of the data collector has not been called.
RunAbsent ==
    /\ config = EmptyDict
    /\ calls = << >>

\* No analyzer has been constructed.
AnalyzersAbsent ==
    /\ a_pc = [a \in Analyzers |-> "absent"]
    /\ bosch_data = [a \in Analyzers |-> << >>]
    /\ analysis_result = [a \in Analyzers |-> NoneDict]
    /\ summary = [a \in Analyzers |-> NotCalled]
    /\ analysis_file = NotCalled

\* No collector has been constructed.
CollectorAbsent ==
    /\ objs = << >>
    /\ all_data = << >>
    /\ collected_data = << >>
    /\ c_pc = "absent"
    /\ data_summary = NotCalled

Init ==
    /\ data_points \in Lists(MaxLen)
    /\ objs = data_points
    /\ all_data = [i \in 1..Len(data_points) |-> i]
    /\ collected_data = << >>
    /\ c_pc = "collected"
    /\ data_summary = NotCalled
    /\ a_pc = [a \in Analyzers |-> "absent"]
    /\ bosch_data = [a \in Analyzers |-> << >>]
    /\ analysis_result = [a \in Analyzers |-> NoneDict]
    /\ summary = [a \in Analyzers |-> NotCalled]
    /\ analysis_file = NotCalled
    /\ ManagerAbsent
    /\ FrameworkAbsent
    /\ RunAbsent
    /\ NoRuns

\* ------------------------------------------------------- collector actions

\* run_collection: all_data = self.deduplicate_data(all_data)
DeduplicateData ==
    /\ c_pc = "collected"
    /\ all_data' = deduplicate_data(all_data, objs)
    /\ c_pc' = "deduplicated"
    /\ UNCHANGED <<other_vars, data_points, objs, collected_data, data_summary, analyzer_vars>>

\* run_collection: all_data = self.validate_data(all_data)
ValidateData ==
    /\ c_pc = "deduplicated"
    /\ all_data' = validate_data(all_data, objs).valid_data
    /\ objs' = validate_data(all_data, objs).heap
    /\ c_pc' = "validated"
    /\ UNCHANGED <<other_vars, data_points, collected_data, data_summary, analyzer_vars>>

\* run_collection: self.collected_data = all_data; return all_data
RunCollectionReturn ==
    /\ c_pc = "validated"
    /\ collected_data' = all_data
    /\ c_pc' = "returned"
    /\ UNCHANGED <<other_vars, data_points, objs, all_data, data_summary, analyzer_vars>>

\* summary = collector.get_data_summary(), once run_collection has returned
GetDataSummary ==
    /\ c_pc = "returned"
    /\ data_summary' = get_data_summary(collected_data, objs)
    /\ c_pc' = "summarized"
    /\ UNCHANGED <<other_vars, data_points, objs, all_data, collected_data, analyzer_vars>>

CollectorNext ==
    \/ DeduplicateData
    \/ ValidateData
    \/ RunCollectionReturn
    \/ GetDataSummary

\* -------------------------------------------------------- analyzer actions

\* The constructor, were it to keep the filtered list as self.data_points.
New_in_place(a) ==
    /\ c_pc = "summarized"
    /\ a_pc[a] = "absent"
    /\ data_points' = filter_bosch_data(data_points)
    /\ bosch_data' = [bosch_data EXCEPT ![a] = filter_bosch_data(data_points)]
    /\ analysis_result' = [analysis_result EXCEPT ![a] = NoneDict]
    /\ a_pc' = [a_pc EXCEPT ![a] = "idle"]
    /\ UNCHANGED <<other_vars, collector_vars, summary, analysis_file>>

\* BoschDeepAnalyzer(data_points)
New(a) ==
    /\ c_pc = "summarized"
    /\ a_pc[a] = "absent"
    /\ bosch_data' = [bosch_data EXCEPT ![a] = filter_bosch_data(data_points)]
    /\ analysis_result' = [analysis_result EXCEPT ![a] = NoneDict]
    /\ a_pc' = [a_pc EXCEPT ![a] = "idle"]
    /\ UNCHANGED <<other_vars, data_points, collector_vars, summary, analysis_file>>

\* run_deep_analysis, were the buckets kept from one run to the next.
RunDeepAnalysis_accumulate(a) ==
    /\ a_pc[a] = "idle"
    /\ analysis_result' =
          [analysis_result EXCEPT ![a] =
              IF @ = NoneDict THEN run_deep_analysis(bosch_data[a])
              ELSE [t \in DOMAIN @ |->
                      [b \in DOMAIN @[t] |->
                          @[t][b] \o run_deep_analysis(bosch_data[a])[t][b]]]]
    /\ UNCHANGED <<other_vars, data_points, collector_vars, a_pc, bosch_data, summary, analysis_file>>

\* analyzer.run_deep_analysis(): the eight analyze_* calls in the order of the
\* constructor's arguments, then self.analysis_result = analysis
RunDeepAnalysis(a) ==
    /\ a_pc[a] = "idle"
    /\ analysis_result' = [analysis_result EXCEPT ![a] = run_deep_analysis(bosch_data[a])]
    /\ UNCHANGED <<other_vars, data_points, collector_vars, a_pc, bosch_data, summary, analysis_file>>

\* summary = analyzer.generate_summary()
GenerateSummary(a) ==
    /\ a_pc[a] = "idle"
    /\ summary' = [summary EXCEPT
                     ![a] = generate_summary(analysis_result[a], bosch_data[a])]
    /\ UNCHANGED <<other_vars, data_points, collector_vars, a_pc, bosch_data, analysis_result,
                   analysis_file>>

\* save_analysis without the test for a missing result: the file is written
\* on every call.
SaveAnalysis_always(a) ==
    /\ a_pc[a] = "idle"
    /\ analysis_file' = analysis_result[a]
    /\ UNCHANGED <<other_vars, data_points, collector_vars, a_pc, bosch_data, analysis_result,
                   summary>>

\* analyzer.save_analysis(): json.dump(asdict(self.analysis_result)), or nothing
SaveAnalysis(a) ==
    /\ a_pc[a] = "idle"
    /\ analysis_file' = IF analysis_result[a] = NoneDict THEN analysis_file
                        ELSE analysis_result[a]
    /\ UNCHANGED <<other_vars, data_points, collector_vars, a_pc, bosch_data, analysis_result,
                   summary>>

AnalyzerNext(a) ==
    \/ New(a)
    \/ RunDeepAnalysis(a)
    \/ GenerateSummary(a)
    \/ SaveAnalysis(a)

\* The collector stage, then one analyzer, over the same records.  The two
\* share no state that either writes (the analyzer reads data_points, the
\* collector works on its own objects), so running them one after the other
\* loses no behaviour of either.
Next == CollectorNext \/ AnalyzerNext(1)

Spec == Init /\ [][Next]_vars

\* The same, over records with optional fields absent, None or empty; the
\* collector holds them as DataPoint objects.
InitSparse ==
    /\ data_points \in SparseLists(MaxLen)
    /\ objs = [i \in 1..Len(data_points) |-> as_data_point(data_points[i])]
    /\ all_data = [i \in 1..Len(data_points) |-> i]
    /\ collected_data = << >>
    /\ c_pc = "collected"
    /\ data_summary = NotCalled
    /\ a_pc = [a \in Analyzers |-> "absent"]
    /\ bosch_data = [a \in Analyzers |-> << >>]
    /\ analysis_result = [a \in Analyzers |-> NoneDict]
    /\ summary = [a \in Analyzers |-> NotCalled]
    /\ analysis_file = NotCalled
    /\ ManagerAbsent
    /\ FrameworkAbsent
    /\ RunAbsent
    /\ NoRuns

\* The collector stage, then two analyzers built over the same data_points,
\* their method calls in any order.
NextBoth == CollectorNext \/ \E a \in Analyzers : AnalyzerNext(a)

SpecSparse == InitSparse /\ [][NextBoth]_vars


\* ------------------------------------------------ DataSourceManager actions

\* The names the calls are made with: two of the default configuration and
\* one it does not hold.
SourceNames == {"DOE", "BOSCH", "BoschBlog"}

\* The brands get_brand_sources is called with.
QueriedBrands == {<<"C","a","r","r","i","e","r">>, <<"B","O","S","C","H">>, <<"M","i","d","e","a">>}

\* The number of readings of the clock that are stored in a source.
MaxClock == 2

\* The file save_config writes: yaml.dump of the configuration.
SavedSources(sources) == [exists |-> TRUE, data_sources |-> sources]

\* The state a method of the manager leaves: the list, the file if the method
\* saved, and the call with the value it returned.
ManagerCall(method, name, outcome) ==
    /\ data_sources' = outcome.data_sources
    /\ sources_file' = IF outcome.saved
                       THEN SavedSources(outcome.data_sources)
                       ELSE sources_file
    /\ returned' = [method |-> method, name |-> name, value |-> outcome.returned]

\* manager.add_data_source(name, url, description, category=..., brand=...)
AddDataSource(name, category, brand) ==
    /\ clock < MaxClock
    /\ ManagerCall("add_data_source", name,
                   add_data_source(data_sources, name, <<"h","t","t","p","s",":","/","/","e","x","a","m","p","l","e",".","c","o","m","/">>, 3,
                                   category, brand, clock + 1))
    /\ clock' = IF has_source(data_sources, name) THEN clock ELSE clock + 1
    /\ UNCHANGED <<data_points, collector_vars, analyzer_vars, interleave_vars, framework_vars, run_vars>>

\* manager.remove_data_source(name)
RemoveDataSource(name) ==
    /\ ManagerCall("remove_data_source", name, remove_data_source(data_sources, name))
    /\ UNCHANGED <<data_points, collector_vars, analyzer_vars, interleave_vars, framework_vars, run_vars, clock>>

\* manager.toggle_data_source(name, enabled)
ToggleDataSource(name, enabled) ==
    /\ ManagerCall("toggle_data_source", name,
                   toggle_data_source(data_sources, name, enabled))
    /\ UNCHANGED <<data_points, collector_vars, analyzer_vars, interleave_vars, framework_vars, run_vars, clock>>

\* manager.update_last_checked(name)
UpdateLastChecked(name) ==
    /\ clock < MaxClock
    /\ ManagerCall("update_last_checked", name,
                   update_last_checked(data_sources, name, clock + 1))
    /\ clock' = IF has_source(data_sources, name) THEN clock + 1 ELSE clock
    /\ UNCHANGED <<data_points, collector_vars, analyzer_vars, interleave_vars, framework_vars, run_vars>>

\* manager.get_brand_sources(brand)
GetBrandSources(brand) ==
    /\ returned' = [method |-> "get_brand_sources", name |-> brand,
                    value |-> get_brand_sources(data_sources, brand)]
    /\ UNCHANGED <<data_points, collector_vars, analyzer_vars, interleave_vars, framework_vars, run_vars, data_sources,
                   sources_file, clock>>

\* DataSourceManager() where no configuration file exists: the default
\* configuration, which create_default_config saves.
InitSources ==
    /\ data_points = << >>
    /\ CollectorAbsent
    /\ AnalyzersAbsent
    /\ data_sources = create_default_config(0)
    /\ sources_file = SavedSources(data_sources)
    /\ FrameworkAbsent
    /\ RunAbsent
    /\ NoRuns
    /\ returned = NotCalled
    /\ clock = 0

\* The methods of one manager, called in any order with any arguments.
NextSources ==
    \/ \E name \in SourceNames, category \in {"custom", "brand"}, brand \in {NoneStr, <<"B","O","S","C","H">>} :
          AddDataSource(name, category, brand)
    \/ \E name \in SourceNames : RemoveDataSource(name)
    \/ \E name \in SourceNames, enabled \in BOOLEAN : ToggleDataSource(name, enabled)
    \/ \E name \in SourceNames : UpdateLastChecked(name)
    \/ \E brand \in QueriedBrands : GetBrandSources(brand)

SpecSources == InitSources /\ [][NextSources]_vars

\* ------------------------------------------- HVACFrameworkCollector actions
\* run_collection of the framework collector asks five questions, shows the
\* summary and asks for confirmation.  collect_analysis_goal,
\* collect_time_range and collect_data_sources write fields of the
\* configuration that no other method and no other component reads; the
\* steps below are the other two questions and the confirmation.

\* What the user types at the brand prompt.
BrandInputs == {<<"3">>, <<"1",","," ","3">>, <<"2",",","9">>, <<>>}

\* What the user types at the scope prompt (and at the custom-scope prompt).
ScopeInputs == {<<"1">>, <<"3">>, <<" ","5">>, <<"9">>}

\* What the user types at the confirmation prompt.
ConfirmInputs == {<<"y","e","s">>, <<" ","Y","E","S">>, <<"n","o">>}

\* The number of rounds the user rejects.
MaxRounds == 2

\* collector = HVACFrameworkCollector(); collector.run_collection() begins
NewFrameworkCollector ==
    /\ f_pc = "absent"
    /\ f_config' = framework_config
    /\ f_pc' = "brands"
    /\ UNCHANGED <<data_points, collector_vars, analyzer_vars, interleave_vars, manager_vars,
                   run_vars, rounds, config_file>>

\* self.collect_target_brands(): one input at its prompt
CollectTargetBrands(choices) ==
    /\ f_pc = "brands"
    /\ f_config' = collect_target_brands(f_config, choices).config
    /\ f_pc' = IF collect_target_brands(f_config, choices).accepted
               THEN "scope" ELSE "brands"
    /\ UNCHANGED <<data_points, collector_vars, analyzer_vars, interleave_vars, manager_vars,
                   run_vars, rounds, config_file>>

\* self.collect_geographic_scope(): one input at its prompt
CollectGeographicScope(choice, custom_scope) ==
    /\ f_pc = "scope"
    /\ f_config' = collect_geographic_scope(f_config, choice, custom_scope).config
    /\ f_pc' = IF collect_geographic_scope(f_config, choice, custom_scope).accepted
               THEN "confirm" ELSE "scope"
    /\ UNCHANGED <<data_points, collector_vars, analyzer_vars, interleave_vars, manager_vars,
                   run_vars, rounds, config_file>>

\* confirm = input(...); if confirm != 'yes': return self.run_collection()
Confirm(answer) ==
    /\ f_pc = "confirm"
    /\ confirmed(answer) \/ rounds < MaxRounds
    /\ f_pc' = IF confirmed(answer) THEN "returned" ELSE "brands"
    /\ rounds' = IF confirmed(answer) THEN rounds ELSE rounds + 1
    /\ UNCHANGED <<data_points, collector_vars, analyzer_vars, interleave_vars, manager_vars,
                   run_vars, f_config, config_file>>

\* The file save_config of the framework collector writes.
SavedConfig(cfg) == [exists |-> TRUE, config |-> cfg]

\* collector.save_config("analysis_config.json"): json.dump(self.config)
SaveConfig ==
    /\ f_pc = "returned"
    /\ config_file' = SavedConfig(f_config)
    /\ f_pc' = "saved"
    /\ UNCHANGED <<data_points, collector_vars, analyzer_vars, interleave_vars, manager_vars,
                   run_vars, f_config, rounds>>

FrameworkNext ==
    \/ NewFrameworkCollector
    \/ \E choices \in BrandInputs : CollectTargetBrands(choices)
    \/ \E choice \in ScopeInputs : CollectGeographicScope(choice, <<" ","T","X"," ">>)
    \/ \E answer \in ConfirmInputs : Confirm(answer)
    \/ SaveConfig

\* ------------------------------------------- HVACDataCollector: main, run

\* load_analysis_config: json.load of the file, or {} without a file.
load_analysis_config(file) == IF file.exists THEN file.config ELSE EmptyDict

\* collector = HVACDataCollector()
NewDataCollector ==
    /\ c_pc = "absent"
    /\ config' = load_analysis_config(config_file)
    /\ c_pc' = "constructed"
    /\ UNCHANGED <<data_points, objs, all_data, collected_data, data_summary,
                   analyzer_vars, interleave_vars, manager_vars, framework_vars, calls>>

\* main without the test of collector.config: run_collection always begins.
CheckConfig_unguarded ==
    /\ c_pc = "constructed"
    /\ c_pc' = "brands"
    /\ UNCHANGED <<data_points, objs, all_data, collected_data, data_summary,
                   analyzer_vars, other_vars>>

\* main: if not collector.config: return; else run_collection begins
CheckConfig ==
    /\ c_pc = "constructed"
    /\ c_pc' = IF config = EmptyDict THEN "aborted" ELSE "brands"
    /\ UNCHANGED <<data_points, objs, all_data, collected_data, data_summary,
                   analyzer_vars, other_vars>>

\* all_data.extend(items): the new objects on the heap, their references at
\* the end of all_data, and the call in the log.
Extend(call, argument, items) ==
    /\ objs' = objs \o items
    /\ all_data' = all_data \o [i \in 1..Len(items) |-> Len(objs) + i]
    /\ calls' = Append(calls, [call |-> call, argument |-> argument,
                               items |-> Len(items)])

\* run_collection: one iteration of the loop over target_brands;
\* collect_brand_data constructs the manager when there is none (no file of
\* sources exists: the manager takes the default configuration and saves it).
CollectBrandData ==
    /\ c_pc = "brands"
    /\ Len(calls) < Len(Get(config, "target_brands", << >>))
    /\ LET brand == Get(config, "target_brands", << >>)[Len(calls) + 1]
           sources == IF data_sources = << >> THEN create_default_config(clock)
                      ELSE data_sources
       IN  /\ data_sources' = sources
           /\ sources_file' = IF data_sources = << >> THEN SavedSources(sources)
                              ELSE sources_file
           /\ Extend("collect_brand_data", brand,
                     collect_brand_data(sources, brand, clock))
    /\ UNCHANGED <<data_points, collected_data, c_pc, data_summary, analyzer_vars, interleave_vars,
                   returned, clock, framework_vars, config>>

\* run_collection: policy_data = await self.collect_policy_data()
CollectPolicyData ==
    /\ c_pc = "brands"
    /\ Len(calls) = Len(Get(config, "target_brands", << >>))
    /\ Extend("collect_policy_data", <<>>, collect_policy_data(clock))
    /\ c_pc' = "policy"
    /\ UNCHANGED <<data_points, collected_data, data_summary, analyzer_vars, interleave_vars,
                   manager_vars, framework_vars, config>>

\* run_collection: recall_data = await self.collect_recall_data()
CollectRecallData ==
    /\ c_pc = "policy"
    /\ Extend("collect_recall_data", <<>>, collect_recall_data(clock))
    /\ c_pc' = "recall"
    /\ UNCHANGED <<data_points, collected_data, data_summary, analyzer_vars, interleave_vars,
                   manager_vars, framework_vars, config>>

\* run_collection: if geo_scope != 'national': collect_regional_data(geo_scope)
CollectRegionalData ==
    /\ c_pc = "recall"
    /\ LET geo_scope == Get(config, "geographic_scope", <<"n","a","t","i","o","n","a","l">>)
       IN  IF geo_scope # <<"n","a","t","i","o","n","a","l">>
           THEN Extend("collect_regional_data", geo_scope,
                       collect_regional_data(geo_scope, clock))
           ELSE UNCHANGED <<objs, all_data, calls>>
    /\ c_pc' = "collected"
    /\ UNCHANGED <<data_points, collected_data, data_summary, analyzer_vars, interleave_vars,
                   manager_vars, framework_vars, config>>

RunNext ==
    \/ NewDataCollector
    \/ CheckConfig
    \/ CollectBrandData
    \/ CollectPolicyData
    \/ CollectRecallData
    \/ CollectRegionalData

\* Nothing has been constructed and no configuration file exists.
InitPipeline ==
    /\ data_points = << >>
    /\ CollectorAbsent
    /\ AnalyzersAbsent
    /\ ManagerAbsent
    /\ FrameworkAbsent
    /\ RunAbsent
    /\ NoRuns

\* The framework collector's main and the data collector's main, the second
\* started at any time: before a configuration file is written, or after.
NextPipeline == FrameworkNext \/ RunNext \/ CollectorNext

SpecPipeline == InitPipeline /\ [][NextPipeline]_vars

\* ------------------------------- HVACDataCollector: main over any records
\* The same main where the collect_* calls of run_collection return whatever
\* records the sources hold (data_points), not the placeholder results.

\* run_collection: the collect_* calls, all_data.extend of what they return
GatherData ==
    /\ c_pc = "brands"
    /\ all_data' = [i \in 1..Len(data_points) |-> i]
    /\ c_pc' = "collected"
    /\ UNCHANGED <<data_points, objs, collected_data, data_summary, analyzer_vars,
                   other_vars>>

\* No collector yet; the configuration file is absent, or was written by a
\* framework collector whose user chose BOSCH and the nationwide option.
InitMain ==
    /\ data_points \in Lists(MaxLen)
    /\ objs = data_points
    /\ all_data = << >>
    /\ collected_data = << >>
    /\ c_pc = "absent"
    /\ data_summary = NotCalled
    /\ AnalyzersAbsent
    /\ ManagerAbsent
    /\ RunAbsent
    /\ NoRuns
    /\ rounds = 0
    /\ \/ FrameworkAbsent
       \/ /\ f_config = collect_geographic_scope(
                            collect_target_brands(framework_config, <<"3">>).config,
                            <<"1">>, <<>>).config
          /\ f_pc = "saved"
          /\ config_file = SavedConfig(f_config)

NextMain == NewDataCollector \/ CheckConfig \/ GatherData \/ CollectorNext

SpecMain == InitMain /\ [][NextMain]_vars

\* ------------------------------------- BoschDeepAnalyzer, call by call
\* Two analyzers over the same list, followed at the grain of the calls
\* run_deep_analysis makes: the constructor with its filter, then each
\* analyze_* call, then the assignment of the result.  Every analyze_* call
\* builds its dict, its bucket lists and its entries anew; the objects a call
\* builds are told apart by the number of the run_deep_analysis call they
\* were built in.

\* The number of run_deep_analysis calls followed.
MaxRuns == 3

\* BoschDeepAnalyzer(data_points): the constructor, with filter_bosch_data
Construct(a) ==
    /\ a_pc[a] = "absent"
    /\ bosch_data' = [bosch_data EXCEPT ![a] = filter_bosch_data(data_points)]
    /\ analysis_result' = [analysis_result EXCEPT ![a] = NoneDict]
    /\ a_pc' = [a_pc EXCEPT ![a] = "idle"]
    /\ UNCHANGED <<data_points, collector_vars, summary, analysis_file,
                   manager_vars, framework_vars, run_vars, interleave_vars>>

\* analyzer.run_deep_analysis() is called
BeginAnalysis(a) ==
    /\ a_pc[a] = "idle"
    /\ runs < MaxRuns
    /\ runs' = runs + 1
    /\ built' = [built EXCEPT ![a] = Frame(runs + 1, << >>)]
    /\ a_pc' = [a_pc EXCEPT ![a] = "analyzing"]
    /\ UNCHANGED <<data_points, collector_vars, bosch_data, analysis_result, summary,
                   analysis_file, manager_vars, framework_vars, run_vars>>

\* AnalyzeNext that takes the dict another analyzer built for the same topic
\* over the same in-scope records, when there is one.
AnalyzeNext_shared(a) ==
    /\ a_pc[a] = "analyzing"
    /\ Len(built[a].topics) < Len(Topics)
    /\ LET n == Len(built[a].topics) + 1
           others == {b \in Analyzers \ {a} :
                         /\ Len(built[b].topics) >= n
                         /\ bosch_data[b] = bosch_data[a]}
       IN  built' = [built EXCEPT ![a].topics =
                        Append(@, IF others = {}
                                  THEN [built_in |-> built[a].run,
                                        value |-> analyze(n, bosch_data[a])]
                                  ELSE built[CHOOSE b \in others : TRUE].topics[n])]
    /\ UNCHANGED <<data_points, collector_vars, analyzer_vars, manager_vars,
                   framework_vars, run_vars, runs>>

\* run_deep_analysis: the next analyze_* call, in the order of the arguments
AnalyzeNext(a) ==
    /\ a_pc[a] = "analyzing"
    /\ Len(built[a].topics) < Len(Topics)
    /\ built' = [built EXCEPT ![a].topics =
                    Append(@, [built_in |-> built[a].run,
                               value |-> analyze(Len(built[a].topics) + 1,
                                                 bosch_data[a])])]
    /\ UNCHANGED <<data_points, collector_vars, analyzer_vars, manager_vars,
                   framework_vars, run_vars, runs>>

\* run_deep_analysis: BoschAnalysisFocus(...); self.analysis_result = analysis
EndAnalysis(a) ==
    /\ a_pc[a] = "analyzing"
    /\ Len(built[a].topics) = Len(Topics)
    /\ analysis_result' =
          [analysis_result EXCEPT
              ![a] = BoschAnalysisFocus([n \in 1..Len(Topics) |->
                                            built[a].topics[n].value])]
    /\ a_pc' = [a_pc EXCEPT ![a] = "idle"]
    /\ UNCHANGED <<data_points, collector_vars, bosch_data, summary, analysis_file,
                   manager_vars, framework_vars, run_vars, interleave_vars>>

\* Two analyzers to be built over the same list of records.
InitInterleaved ==
    /\ data_points \in SparseLists(MaxLen)
    /\ CollectorAbsent
    /\ AnalyzersAbsent
    /\ ManagerAbsent
    /\ FrameworkAbsent
    /\ RunAbsent
    /\ NoRuns

\* The calls of the two analyzers, in any interleaving.
NextInterleaved ==
    \E a \in Analyzers :
        \/ Construct(a)
        \/ BeginAnalysis(a)
        \/ AnalyzeNext(a)
        \/ EndAnalysis(a)

SpecInterleaved == InitInterleaved /\ [][NextInterleaved]_vars
\* ------------------------------------------------------------------ claims

Range(s) == {s[i] : i \in 1..Len(s)}

TopicNames == Range(Topics)

\* The analyzer a has completed a run_deep_analysis.
Analyzed(a) == analysis_result[a] # NoneDict

\* Some keyword of the rule occurs in the lower-cased content of record r.
Matches(rule, r) ==
    \E k \in Range(rule.keywords) : contains(k, lower(r.content))

\* The entry a rule stores for record r.
EntryOf(rule, r) == bucket_entry(rule, lower(r.content), r.url, r.timestamp)

\* The number of positions of sequence s that hold e.
Occurrences(s, e) == Cardinality({j \in 1..Len(s) : s[j] = e})

\* C1: after run_deep_analysis, for every in-scope record (member of
\* bosch_data) and every bucket with a keyword rule, the record has an entry
\* in the bucket iff a keyword of the rule occurs in its lower-cased content,
\* and it has one entry per occurrence in the input: the bucket holds as many
\* entries as there are matching positions of bosch_data, every entry is the
\* entry of a matching record, and each such entry occurs as often as the
\* matching records that yield it.
C1_BucketMembership ==
    \A a \in Analyzers : Analyzed(a) =>
        \A t \in TopicNames : \A rule \in Range(topic_rules(t)) :
            LET B  == analysis_result[a][t][rule.bucket]
                bd == bosch_data[a]
                M  == {i \in 1..Len(bd) : Matches(rule, bd[i])}
            IN  /\ Len(B) = Cardinality(M)
                /\ \A j \in 1..Len(B) : \E i \in M : B[j] = EntryOf(rule, bd[i])
                /\ \A i \in M :
                      Occurrences(B, EntryOf(rule, bd[i]))
                        = Cardinality({n \in M : EntryOf(rule, bd[n]) = EntryOf(rule, bd[i])})

\* C1 witness: one in-scope record sits in buckets of two topics, twice in the
\* input and so twice in the bucket, next to an in-scope record that matches
\* no rule of that bucket.
C1_Witness ==
    /\ Analyzed(1)
    /\ Len(bosch_data[1]) = 2
    /\ bosch_data[1][1] = bosch_data[1][2]
    /\ Len(analysis_result[1].product_innovation["patent_activity"]) = 2
    /\ Len(analysis_result[1].risk_factors["market_risks"]) = 2
    /\ Len(analysis_result[1].product_innovation["new_product_launches"]) = 0

\* The brand keywords of the in-scope rule.
BrandKeywords ==
    {<<"b","o","s","c","h">>, <<"u535a","u4e16">>, <<"b","o","s","c","h"," ","h","v","a","c">>, <<"b","o","s","c","h"," ","h","e","a","t","i","n","g">>,
     <<"b","o","s","c","h"," ","c","l","i","m","a","t","e">>, <<"b","o","s","c","h"," ","t","h","e","r","m","o","t","e","c","h","n","o","l","o","g","y">>}

\* Record r is in scope: brand BOSCH, or a brand keyword in the lower-cased
\* content or url.
InScope(r) ==
    \/ r.brand = "BOSCH"
    \/ \E k \in BrandKeywords :
          contains(k, lower(r.content)) \/ contains(k, lower(r.url))

\* C2: filter_bosch_data keeps a record iff its brand is exactly 'BOSCH' or a
\* brand keyword is a substring of its lower-cased content or url: every
\* record occurs in bosch_data as often as in data_points when it is in scope,
\* and not at all otherwise.
C2_InScopeFilter ==
    \A a \in Analyzers : a_pc[a] # "absent" =>
        \A r \in Range(data_points) \cup Range(bosch_data[a]) :
            Occurrences(bosch_data[a], r)
              = IF InScope(r) THEN Occurrences(data_points, r) ELSE 0

\* C2 witness: a record without brand is in scope through its url alone, and
\* a record with another brand and no brand keyword is left out.
C2_Witness ==
    /\ a_pc[1] # "absent"
    /\ Len(data_points) = 2
    /\ Len(bosch_data[1]) = 1
    /\ bosch_data[1][1].brand = NONE
    /\ ~ contains(<<"b","o","s","c","h">>, lower(bosch_data[1][1].content))
    /\ \E i \in 1..2 : data_points[i].brand = "Trane"

\* Two records have the same deduplication key: the same url and the same
\* first 100 characters of content.
SameKey(r1, r2) ==
    /\ r1.url = r2.url
    /\ \A k \in 1..DedupKeyLength :
          /\ (k <= Len(r1.content)) <=> (k <= Len(r2.content))
          /\ k <= Len(r1.content) => r1.content[k] = r2.content[k]

\* C3: deduplicate_data returns a list in which no two records share the key
\* (url, content[:100]); for each key of the input the record kept is the
\* first one with that key, and the records kept are in input order.  (The
\* input list holds the objects 1..Len(objs) in this order.)
C3_Deduplication ==
    c_pc = "deduplicated" =>
        /\ \A i, j \in 1..Len(all_data) :
              i < j => /\ all_data[i] < all_data[j]
                       /\ ~ SameKey(objs[all_data[i]], objs[all_data[j]])
        /\ \A q \in 1..Len(objs) :
              (\E i \in 1..Len(all_data) : all_data[i] = q)
                 <=> ~ \E p \in 1..(q - 1) : SameKey(objs[p], objs[q])

\* C3 witness: of two different records with the same url and the same first
\* 100 characters the first is kept and the second dropped.
C3_Witness ==
    /\ c_pc = "deduplicated"
    /\ Len(objs) = 2
    /\ objs[1] # objs[2]
    /\ Len(objs[1].content) > DedupKeyLength
    /\ all_data = <<1>>

\* The order public < restricted < confidential.
Rank(sensitivity) ==
    CASE sensitivity = "public"       -> 0
      [] sensitivity = "restricted"   -> 1
      [] sensitivity = "confidential" -> 2

\* C4: validation never downgrades the sensitivity of a record, and the only
\* change it makes is public to restricted.  (objs starts as data_points and
\* only validate_data writes to it.)
C4_NeverDowngraded ==
    \A i \in 1..Len(objs) :
        /\ Rank(objs[i].sensitivity) >= Rank(data_points[i].sensitivity)
        /\ objs[i].sensitivity # data_points[i].sensitivity =>
              /\ data_points[i].sensitivity = "public"
              /\ objs[i].sensitivity = "restricted"

\* C5: validate_data returns its input list restricted to the records with
\* non-empty url and non-empty content, in the same order.
C5_ValidationDrops ==
    [][(c_pc = "deduplicated" /\ c_pc' = "validated") =>
          LET Keep(ref) == objs[ref].url # <<>> /\ objs[ref].content # <<>>
          IN  all_data' = SelectSeq(all_data, Keep)]_vars

\* C5 witness: validation has dropped the first record for its empty url or
\* content and kept the record after it.
C5_Witness ==
    /\ c_pc = "validated"
    /\ Len(objs) = 2
    /\ objs[1].url = <<>> \/ objs[1].content = <<>>
    /\ all_data = <<2>>

\* generate_summary has returned a summary of a completed analysis.
Summarised(a) == summary[a] # NotCalled /\ summary[a] # EmptyDict

\* The entries of the summary: <<topic, key in the summary, bucket counted>>.
SummaryEntries ==
    { <<"product_innovation", "new_products", "new_product_launches">>,
      <<"product_innovation", "tech_advancements", "technology_advancements">>,
      <<"product_innovation", "patents", "patent_activity">>,
      <<"market_positioning", "segments", "target_segments">>,
      <<"market_positioning", "positioning", "competitive_positioning">>,
      <<"channel_strategy", "partnerships", "strategic_partnerships">>,
      <<"channel_strategy", "distribution", "distribution_network">>,
      <<"financial_performance", "revenue_data", "revenue_data">>,
      <<"financial_performance", "investments", "market_investment">>,
      <<"technology_advantage", "core_tech", "core_technologies">>,
      <<"technology_advantage", "differentiators", "technical_differentiators">>,
      <<"competitive_moat", "brand_strength", "brand_strength">>,
      <<"competitive_moat", "loyalty", "customer_loyalty">>,
      <<"strategic_initiatives", "expansion", "market_expansion">>,
      <<"strategic_initiatives", "digital", "digital_transformation">>,
      <<"risk_factors", "market_risks", "market_risks">>,
      <<"risk_factors", "regulatory_risks", "regulatory_risks">> }

\* C6 as stated: the summary holds, for every topic/bucket pair of the
\* classification result, an entry (under whatever key) whose value is the
\* length of that bucket.
C6_EveryBucketCounted ==
    \A a \in Analyzers : Summarised(a) =>
        \A t \in TopicNames : \A b \in DOMAIN analysis_result[a][t] :
            \E k \in DOMAIN summary[a].analysis_dimensions[t] :
                summary[a].analysis_dimensions[t][k] = Len(analysis_result[a][t][b])

\* C6 amended: the summary of a completed analysis has an entry for the
\* seventeen topic/bucket pairs of SummaryEntries and for no other; each entry
\* is the length of its bucket, total_data_points is the number of in-scope
\* records, and the summary holds nothing but these counts.
C6_SummaryCounts ==
    \A a \in Analyzers : Summarised(a) =>
        LET dims == summary[a].analysis_dimensions
        IN  /\ DOMAIN summary[a] = {"total_data_points", "analysis_dimensions"}
            /\ summary[a].total_data_points = Len(bosch_data[a])
            /\ DOMAIN dims = TopicNames
            /\ \A t \in TopicNames :
                  DOMAIN dims[t] = {e[2] : e \in {x \in SummaryEntries : x[1] = t}}
            /\ \A e \in SummaryEntries :
                  /\ dims[e[1]][e[2]] \in Nat
                  /\ dims[e[1]][e[2]] = Len(analysis_result[a][e[1]][e[3]])

\* C6 witness: a summary with a count of 1 and a count of 0, of an analysis
\* that also filled a bucket the summary does not list.
C6_Witness ==
    /\ Summarised(1)
    /\ summary[1].analysis_dimensions.product_innovation.patents = 1
    /\ summary[1].analysis_dimensions.product_innovation.new_products = 0
    /\ Len(analysis_result[1].market_positioning["pricing_strategy"]) = 1

\* The entry e of a bucket was made from record r.  The records of RecordPool
\* differ pairwise in (url, timestamp), so these two fields name the record.
IsEntryOf(e, r) == e.source = r.url /\ e.timestamp = r.timestamp

\* No keyword of any bucket occurs in the lower-cased content of r.
NoKeyword(r) == \A t \in TopicNames : \A rule \in Range(topic_rules(t)) : ~ Matches(rule, r)

\* Record r has no entry in any bucket of analyzer a's result.
InNoBucket(a, r) ==
    \A t \in TopicNames : \A b \in DOMAIN analysis_result[a][t] :
        \A j \in 1..Len(analysis_result[a][t][b]) :
            ~ IsEntryOf(analysis_result[a][t][b][j], r)

C8_EveryMatchingRecord ==
    \A a \in Analyzers : Analyzed(a) =>
        \A r \in Range(data_points) : \A t \in TopicNames :
            \A rule \in Range(topic_rules(t)) :
                (r.content # <<>> /\ Matches(rule, r)) =>
                    \E j \in 1..Len(analysis_result[a][t][rule.bucket]) :
                        IsEntryOf(analysis_result[a][t][rule.bucket][j], r)

\* C8 amended: every in-scope record of data_points (brand BOSCH, or a brand
\* keyword in its lower-cased content or url) with non-empty content that
\* contains, case-insensitively, a keyword of a bucket has an entry in that
\* bucket after run_deep_analysis.
C8_InScopeMatchingRecord ==
    \A a \in Analyzers : Analyzed(a) =>
        \A r \in Range(data_points) : \A t \in TopicNames :
            \A rule \in Range(topic_rules(t)) :
                (InScope(r) /\ r.content # <<>> /\ Matches(rule, r)) =>
                    \E j \in 1..Len(analysis_result[a][t][rule.bucket]) :
                        IsEntryOf(analysis_result[a][t][rule.bucket][j], r)

\* C8 witness: a record whose content holds a keyword in upper case only has
\* its entry in the bucket, next to a matching record that is out of scope.
C8_Witness ==
    /\ Analyzed(1)
    /\ Len(data_points) = 2
    /\ data_points[1].brand = "Trane" /\ ~ NoKeyword(data_points[1])
    /\ ~ contains(<<"p","a","t","e","n","t">>, data_points[2].content)
    /\ Len(analysis_result[1].product_innovation["patent_activity"]) = 1
    /\ IsEntryOf(analysis_result[1].product_innovation["patent_activity"][1], data_points[2])

\* s is made of elements of t, related by R, taken in the order of t.
InOrderOf(s, t, R(_, _)) ==
    \E f \in [1..Len(s) -> 1..Len(t)] :
        /\ \A j \in 1..Len(s) : R(s[j], t[f[j]])
        /\ \A i, j \in 1..Len(s) : i < j => f[i] < f[j]

\* C9: after run_deep_analysis the entries of every bucket are in the order
\* in which their records stand in data_points, and bosch_data is a
\* subsequence of data_points.
C9_StableOrder ==
    \A a \in Analyzers :
        /\ a_pc[a] # "absent" =>
              InOrderOf(bosch_data[a], data_points, LAMBDA x, y : x = y)
        /\ Analyzed(a) =>
              \A t \in TopicNames : \A b \in DOMAIN analysis_result[a][t] :
                  InOrderOf(analysis_result[a][t][b], data_points, IsEntryOf)

\* C9 witness: a bucket with the entries of two different records, the first
\* of which sorts after the second by timestamp and by url.
C9_Witness ==
    /\ Analyzed(1)
    /\ Len(data_points) = 2
    /\ str_less(data_points[2].timestamp, data_points[1].timestamp)
    /\ str_less(data_points[2].url, data_points[1].url)
    /\ Len(analysis_result[1].product_innovation["new_product_launches"]) = 2
    /\ IsEntryOf(analysis_result[1].product_innovation["new_product_launches"][1],
                 data_points[1])

\* C10: the result of run_deep_analysis has the eight topics and, under each
\* topic, each of its buckets (seven under product_innovation, six under
\* every other); a bucket for which no in-scope record matches a rule is
\* the empty sequence.
C10_FullSchema ==
    \A a \in Analyzers : Analyzed(a) =>
        /\ DOMAIN analysis_result[a] =
              {"product_innovation", "market_positioning", "channel_strategy",
               "financial_performance", "technology_advantage", "competitive_moat",
               "strategic_initiatives", "risk_factors"}
        /\ \A t \in DOMAIN analysis_result[a] :
              /\ DOMAIN analysis_result[a][t] = Range(topic_buckets(t))
              /\ Cardinality(DOMAIN analysis_result[a][t])
                    = IF t = "product_innovation" THEN 7 ELSE 6
              /\ \A b \in Range(topic_buckets(t)) :
                    (\A r \in Range(data_points) : \A rule \in Range(topic_rules(t)) :
                        ~ (InScope(r) /\ rule.bucket = b /\ Matches(rule, r)))
                      => analysis_result[a][t][b] = << >>

\* C10 witness: the analysis of the empty record list.
C10_Witness ==
    /\ data_points = << >>
    /\ Analyzed(1)
    /\ analysis_result[1].competitive_moat["brand_strength"] = << >>

\* The preview the claim C11 describes: the first 200 characters of the
\* content, followed by the ellipsis only when the content is longer.
PreviewAsStated(content) ==
    IF Len(content) > PreviewLength
    THEN prefix(content, PreviewLength) \o Ellipsis
    ELSE content

\* C11: every entry of every bucket stores three things, taken from one
\* in-scope record: source, the record's url or else its source; under a key
\* of its own the first 200 characters of the record's content, followed by
\* an ellipsis only if the content is longer; and the record's timestamp.
C11_EntryContents ==
    \A a \in Analyzers : Analyzed(a) =>
        \A t \in TopicNames : \A b \in DOMAIN analysis_result[a][t] :
            \A j \in 1..Len(analysis_result[a][t][b]) :
                LET e == analysis_result[a][t][b][j]
                IN  /\ Cardinality(DOMAIN e) = 3
                    /\ {"source", "timestamp"} \subseteq DOMAIN e
                    /\ \E r \in Range(bosch_data[a]) :
                          /\ e.source = IF r.url # <<>> THEN r.url ELSE r.source
                          /\ e.timestamp = r.timestamp
                          /\ \A k \in DOMAIN e \ {"source", "timestamp"} :
                                e[k] = PreviewAsStated(r.content)

\* get_data_summary has returned the summary of a non-empty collected_data.
HasSummary == c_pc = "summarized" /\ "total_data_points" \in DOMAIN data_summary

\* The record at position i of collected_data.
Collected(i) == objs[collected_data[i]]

\* metadata is present and metadata.bosch_priority is truthy.
BoschPriority(r) ==
    /\ r.metadata # NoneDict
    /\ "bosch_priority" \in DOMAIN r.metadata
    /\ r.metadata.bosch_priority = TRUE

\* C12: bosch_data_points is the number of records of collected_data with
\* brand 'BOSCH' or a truthy metadata.bosch_priority, each counted once.
C12_BoschDataPoints ==
    HasSummary =>
        data_summary.bosch_data_points =
            Cardinality({i \in 1..Len(collected_data) :
                            \/ Collected(i).brand = "BOSCH"
                            \/ BoschPriority(Collected(i))})

\* C12 witness: a summary that counts one record, which meets both
\* conditions, next to a record that meets neither.
C12_Witness ==
    /\ HasSummary
    /\ Len(collected_data) = 2
    /\ data_summary.bosch_data_points = 1
    /\ Collected(1).brand = "BOSCH" /\ BoschPriority(Collected(1))
    /\ Collected(2).brand = "Trane"

\* The number of records of collected_data for which P holds.
CountCollected(P(_)) == Cardinality({i \in 1..Len(collected_data) : P(Collected(i))})

\* C13 as stated: total_data_points is the number of records, and every
\* record is counted in each of the three groupings: under its brand, under
\* its data_type and under its sensitivity stands the number of records that
\* have the same.
C13_EveryRecordInEachGrouping ==
    HasSummary =>
        /\ data_summary.total_data_points = Len(collected_data)
        /\ \A i \in 1..Len(collected_data) :
              /\ Get(data_summary.by_brand, Collected(i).brand, 0)
                    = CountCollected(LAMBDA r : r.brand = Collected(i).brand)
              /\ Get(data_summary.by_data_type, Collected(i).data_type, 0)
                    = CountCollected(LAMBDA r : r.data_type = Collected(i).data_type)
              /\ Get(data_summary.by_sensitivity, Collected(i).sensitivity, 0)
                    = CountCollected(LAMBDA r : r.sensitivity = Collected(i).sensitivity)

\* C13 amended: total_data_points is the number of records; by_data_type
\* and by_sensitivity have one key per data_type and per sensitivity that
\* occurs and count every record; by_brand has one key per brand that occurs
\* and counts the records with that brand, and a record without brand (None
\* or the empty string) is counted under no key of by_brand.
C13_CrossTab ==
    HasSummary =>
        LET N == 1..Len(collected_data)
        IN  /\ data_summary.total_data_points = Len(collected_data)
            /\ DOMAIN data_summary.by_brand
                  = {Collected(i).brand : i \in N} \ {NONE, ""}
            /\ \A b \in DOMAIN data_summary.by_brand :
                  data_summary.by_brand[b] = CountCollected(LAMBDA r : r.brand = b)
            /\ DOMAIN data_summary.by_data_type = {Collected(i).data_type : i \in N}
            /\ \A t \in DOMAIN data_summary.by_data_type :
                  data_summary.by_data_type[t] = CountCollected(LAMBDA r : r.data_type = t)
            /\ DOMAIN data_summary.by_sensitivity = {Collected(i).sensitivity : i \in N}
            /\ \A s \in DOMAIN data_summary.by_sensitivity :
                  data_summary.by_sensitivity[s] = CountCollected(LAMBDA r : r.sensitivity = s)

\* C13 witness: the summary of a record without brand and a record of
\* another brand than BOSCH, both of one data_type; by_brand counts the
\* second only.
C13_Witness ==
    /\ HasSummary
    /\ Len(collected_data) = 2
    /\ Collected(1).brand = NONE
    /\ Collected(2).brand = "Trane"
    /\ DOMAIN data_summary.by_brand = {"Trane"}
    /\ data_summary.by_sensitivity["public"] = 2

\* C14: for a non-empty collected_data, time_range.earliest and
\* time_range.latest are the lexicographic minimum and maximum of the
\* timestamps of all records, whatever the timestamps are.
C14_LexMinMax ==
    HasSummary =>
        LET N == 1..Len(collected_data)
            earliest == data_summary.time_range.earliest
            latest   == data_summary.time_range.latest
        IN  /\ \E i \in N : Collected(i).timestamp = earliest
            /\ \A i \in N : ~ str_less(Collected(i).timestamp, earliest)
            /\ \E i \in N : Collected(i).timestamp = latest
            /\ \A i \in N : ~ str_less(latest, Collected(i).timestamp)

\* run_collection has completed.
Completed == c_pc \in {"returned", "summarized"}

\* C16: once run_collection has completed, collected_data holds no two
\* records with the same (url, content[:100]) and no record with empty url
\* or empty content; and in every run deduplication is applied once, to the
\* gathered list, validation next, to the list deduplication returned, and
\* collected_data is assigned the list validation returned.
C16_UpstreamOfAggregation ==
    /\ [](Completed =>
            /\ \A i, j \in 1..Len(collected_data) :
                  i # j => ~ SameKey(Collected(i), Collected(j))
            /\ \A i \in 1..Len(collected_data) :
                  Collected(i).url # <<>> /\ Collected(i).content # <<>>)
    /\ [][/\ c_pc' # c_pc =>
                \/ c_pc = "collected" /\ c_pc' = "deduplicated"
                       /\ \A i, j \in 1..Len(all_data') :
                             i # j => ~ SameKey(objs[all_data'[i]], objs[all_data'[j]])
                \/ c_pc = "deduplicated" /\ c_pc' = "validated"
                       /\ Range(all_data') \subseteq Range(all_data)
                       /\ \A i \in 1..Len(all_data') :
                             objs[all_data'[i]].url # <<>> /\ objs[all_data'[i]].content # <<>>
                \/ c_pc = "validated" /\ c_pc' = "returned"
                       /\ collected_data' = all_data
                \/ c_pc = "returned" /\ c_pc' = "summarized"
          /\ c_pc' = c_pc => all_data' = all_data /\ collected_data' = collected_data
          /\ c_pc \in {"collected", "deduplicated"} => collected_data' = << >>
          /\ Completed => all_data' = all_data /\ collected_data' = collected_data]_vars

\* C16 witness: a completed run over two different records with one key;
\* collected_data holds the first of them only.
C16_Witness ==
    /\ c_pc = "returned"
    /\ Len(objs) = 2
    /\ SameKey(objs[1], objs[2])
    /\ objs[1] # objs[2]
    /\ collected_data = <<1>>

\* C17: the constructor with its filter_bosch_data, run_deep_analysis with
\* its analyze_* calls, generate_summary and save_analysis leave data_points
\* (length, order, members, every field of every record) as it was, and the
\* collector's records too.
C17_ClassificationReadOnly ==
    [][analyzer_vars' # analyzer_vars =>
          /\ data_points' = data_points
          /\ objs' = objs
          /\ collected_data' = collected_data]_vars

\* C17 witness: an analysis and its summary over two records of which one
\* is out of scope; data_points still holds both.
C17_Witness ==
    /\ Analyzed(1)
    /\ Summarised(1)
    /\ Len(data_points) = 2
    /\ Len(bosch_data[1]) = 1
    /\ \E i \in 1..2 : ~ InScope(data_points[i])

\* C18: deduplicate_data and validate_data leave every field of every input
\* record as it was.  (objs holds the records run_collection gathered; they
\* start out as data_points, which no step changes.)
C18_InputsUnchanged == objs = data_points

\* The record has no brand and the word 'bosch' in its lower-cased content.
BrandlessBosch(r) ==
    Get(r, "brand", NONE) = NONE /\ contains(<<"b","o","s","c","h">>, lower(r.content))

\* C15: a record with brand None whose content contains 'bosch' is always
\* in bosch_data, as often as in data_points, and it is counted in
\* bosch_data_points if and only if its metadata.bosch_priority is truthy:
\* bosch_data_points is the number of such records with the flag, plus the
\* records of another kind that the counter counts.
C15_InclusionRulesDiverge ==
    /\ \A a \in Analyzers : a_pc[a] # "absent" =>
          \A r \in Range(data_points) :
              BrandlessBosch(r) =>
                  /\ Occurrences(bosch_data[a], r) = Occurrences(data_points, r)
                  /\ Occurrences(bosch_data[a], r) > 0
    /\ HasSummary =>
          data_summary.bosch_data_points =
              CountCollected(LAMBDA r : BrandlessBosch(r) /\ BoschPriority(r))
              + CountCollected(LAMBDA r : /\ ~ BrandlessBosch(r)
                                          /\ r.brand = "BOSCH" \/ BoschPriority(r))

\* C15 witness: two records without brand and with 'bosch' in the content,
\* only one of them with metadata.bosch_priority; both are in scope, one is
\* counted.
C15_Witness ==
    /\ HasSummary
    /\ a_pc[1] # "absent"
    /\ Len(collected_data) = 2
    /\ \A i \in 1..2 : BrandlessBosch(Collected(i))
    /\ BoschPriority(Collected(1)) /\ ~ BoschPriority(Collected(2))
    /\ Len(bosch_data[1]) = 2
    /\ data_summary.bosch_data_points = 1

\* C19: two analyzers built from the same data_points that have both run
\* hold the same result, bucket by bucket, and a further run_deep_analysis
\* on an analyzer that has run leaves its result as it was.
C19_Idempotence ==
    /\ [](\A a, b \in Analyzers :
            (Analyzed(a) /\ Analyzed(b)) => analysis_result[a] = analysis_result[b])
    /\ [][\A a \in Analyzers :
            Analyzed(a) => analysis_result'[a] = analysis_result[a]]_vars

\* C19 witness: both analyzers have run over the same two matching records.
C19_Witness ==
    /\ Analyzed(1) /\ Analyzed(2)
    /\ Len(analysis_result[1].product_innovation["new_product_launches"]) = 1
    /\ Len(analysis_result[2].market_positioning["pricing_strategy"]) = 1

\* C20: on records whose optional fields are absent, None or empty,
\* filter_bosch_data, run_deep_analysis, generate_summary and
\* get_data_summary complete normally: no call ends by raising.  (Of the
\* four, get_data_summary is the one with an operation that can raise on
\* such a field: the comparison of timestamps.)
C20_NeverRaises == data_summary # TypeError


\* The record of scenario A, with the four keys the scenario gives.
ScenarioA ==
    [url |-> <<"a">>, content |-> <<"B","o","s","c","h"," ","l","a","u","n","c","h","e","s"," ","n","e","w"," ","p","r","o","d","u","c","t">>, brand |-> "BOSCH",
     timestamp |-> <<"2","0","2","4","-","0","1","-","0","1","T","0","0",":","0","0",":","0","0">>]

\* Record r has the url, content, brand and timestamp of scenario A.
IsScenarioA(r) ==
    \A k \in DOMAIN ScenarioA : k \in DOMAIN r /\ r[k] = ScenarioA[k]

\* In the analysis, the one bucket new_product_launches of product_innovation
\* holds exactly one entry and every other bucket of every topic is empty.
OnlyNewProductLaunch(analysis) ==
    \A t \in TopicNames : \A b \in DOMAIN analysis[t] :
        Len(analysis[t][b]) =
            IF t = "product_innovation" /\ b = "new_product_launches" THEN 1 ELSE 0

\* C23: scenario A.  An analyzer built over the single record {url 'a',
\* content 'Bosch launches new product', brand 'BOSCH', timestamp
\* '2024-01-01T00:00:00'} keeps it in scope, and its run_deep_analysis puts it
\* in product_innovation.new_product_launches, once, and leaves every other
\* bucket of every topic empty; the summary counts it as one new product.
C23_ScenarioA ==
    /\ OnlyNewProductLaunch(run_deep_analysis(filter_bosch_data(<<ScenarioA>>)))
    /\ \A a \in Analyzers :
          (Len(data_points) = 1 /\ IsScenarioA(data_points[1]) /\ Analyzed(a)) =>
              /\ Len(bosch_data[a]) = 1
              /\ OnlyNewProductLaunch(analysis_result[a])
              /\ "analysis_dimensions" \in DOMAIN summary[a] =>
                    summary[a].analysis_dimensions.product_innovation.new_products = 1

\* C23 witness: the analyzer has run over the single record of scenario A and
\* its summary has been generated.
C23_Witness ==
    /\ Len(data_points) = 1 /\ IsScenarioA(data_points[1])
    /\ Analyzed(1)
    /\ Len(analysis_result[1].product_innovation["new_product_launches"]) = 1
    /\ "analysis_dimensions" \in DOMAIN summary[1]

\* C27: analysis_result is null from construction until run_deep_analysis
\* completes: the constructor leaves it null, only run_deep_analysis changes
\* it, and run_deep_analysis leaves it non-null.  While it is null,
\* generate_summary returns {} and save_analysis writes nothing.  Afterwards
\* generate_summary returns a summary whose total_data_points is
\* len(bosch_data) and whose analysis_dimensions has exactly the eight topics.
C27_NullUntilRun ==
    [][\A a \in Analyzers :
          /\ New(a) => analysis_result'[a] = NoneDict
          /\ RunDeepAnalysis(a) => analysis_result'[a] # NoneDict
          /\ (analysis_result[a] = NoneDict /\ analysis_result'[a] # NoneDict) =>
                RunDeepAnalysis(a)
          /\ (GenerateSummary(a) /\ analysis_result[a] = NoneDict) =>
                summary'[a] = EmptyDict
          /\ (SaveAnalysis(a) /\ analysis_result[a] = NoneDict) =>
                analysis_file' = analysis_file
          /\ (GenerateSummary(a) /\ analysis_result[a] # NoneDict) =>
                /\ DOMAIN summary'[a] = {"total_data_points", "analysis_dimensions"}
                /\ summary'[a].total_data_points = Len(bosch_data[a])
                /\ DOMAIN summary'[a].analysis_dimensions = TopicNames
                /\ Cardinality(TopicNames) = 8]_vars

\* C27 witness: generate_summary was called on a non-empty in-scope list
\* while the result was null and returned {}, no file was written, and
\* run_deep_analysis has completed since.
C27_Witness ==
    /\ summary[1] = EmptyDict
    /\ analysis_file = NotCalled
    /\ Len(bosch_data[1]) > 0
    /\ Analyzed(1)

\* The list run_collection gathered, before deduplication and validation.
Gathered == [i \in 1..Len(data_points) |-> i]

\* validate_data, then deduplicate_data on the list and heap it leaves.
ValidateThenDeduplicate(data, heap) ==
    deduplicate_data(validate_data(data, heap).valid_data,
                     validate_data(data, heap).heap)

\* deduplicate_data, then validate_data: the order of run_collection.
DeduplicateThenValidate(data, heap) ==
    validate_data(deduplicate_data(data, heap), heap).valid_data

\* C29: deduplicate_data is idempotent (applied to its own output it returns
\* that output), and it commutes with validate_data with respect to which
\* records are retained and in which order: validating and then
\* de-duplicating retains the same records in the same order as
\* de-duplicating and then validating.  Stated of every list the collector
\* holds, and of the list run_collection ends with.
C29_IdempotentAndCommutes ==
    /\ deduplicate_data(deduplicate_data(all_data, objs), objs)
          = deduplicate_data(all_data, objs)
    /\ ValidateThenDeduplicate(all_data, objs) = DeduplicateThenValidate(all_data, objs)
    /\ c_pc \in {"validated", "returned", "summarized"} =>
          all_data = ValidateThenDeduplicate(Gathered, data_points)

\* C29 witness: run_collection has de-duplicated and validated a list of two
\* records with the same key and an empty url or content: de-duplication drops one of
\* them, validation the other, whichever comes first.
C29_Witness ==
    /\ c_pc = "validated"
    /\ Len(data_points) = 2
    /\ Len(deduplicate_data(Gathered, data_points)) = 1
    /\ Len(validate_data(Gathered, data_points).valid_data) = 0
    /\ all_data = << >>

\* The names of the sources are pairwise distinct.
UniqueNames(sources) ==
    \A i, j \in 1..Len(sources) : sources[i].name = sources[j].name => i = j

\* The last call was of the method, with the name, and returned the value.
Returned(method, name, value) ==
    /\ returned # NotCalled
    /\ returned.method = method
    /\ returned.name = name
    /\ returned.value = value

\* The step is a call of the method with the name.
Calls(method, name) ==
    /\ returned'.method = method
    /\ returned'.name = name

\* C30: the names of the data sources stay pairwise distinct under any
\* sequence of add_data_source, remove_data_source, toggle_data_source and
\* update_last_checked calls on a configuration whose names are distinct;
\* add_data_source with a name already present returns False and leaves the
\* list unchanged; remove_data_source and toggle_data_source with a name not
\* present return False, leave the configuration unchanged and do not save it.
C30_UniqueNames ==
    /\ [](UniqueNames(data_sources))
    /\ [][\A name \in SourceNames :
             /\ (Calls("add_data_source", name) /\ has_source(data_sources, name)) =>
                    /\ returned'.value = FALSE
                    /\ data_sources' = data_sources
             /\ (Calls("remove_data_source", name) /\ ~ has_source(data_sources, name)) =>
                    /\ returned'.value = FALSE
                    /\ data_sources' = data_sources
                    /\ sources_file' = sources_file
             /\ (Calls("toggle_data_source", name) /\ ~ has_source(data_sources, name)) =>
                    /\ returned'.value = FALSE
                    /\ data_sources' = data_sources
                    /\ sources_file' = sources_file
             /\ (Calls("remove_data_source", name) /\ has_source(data_sources, name)) =>
                    /\ returned'.value = TRUE
                    /\ ~ has_source(data_sources', name)]_vars

\* C30 witness: a source was added under a new name and saved, and a second
\* add_data_source with that name has returned False.
C30_Witness ==
    /\ has_source(data_sources, "BoschBlog")
    /\ sources_file = SavedSources(data_sources)
    /\ Returned("add_data_source", "BoschBlog", FALSE)

\* The sources whose brand field equals the brand, in the order of the list.
SourcesOfBrand(sources, brand) ==
    LET wanted(source) == Get(source, "brand", NoneStr) = brand
    IN  SelectSeq(sources, wanted)

\* C24: get_brand_sources(brand) returns the sources whose brand field equals
\* the given brand, and only those, in the order of the configuration.
C24_BrandSourcesOnly ==
    (returned # NotCalled /\ returned.method = "get_brand_sources") =>
        returned.value = SourcesOfBrand(data_sources, returned.name)

\* The record is one validate_data keeps.
Traceable(r) == r.url # <<>> /\ r.content # <<>>

\* The references of the list to records validate_data keeps, in order.
TraceableOf(data, heap) ==
    LET keeps(ref) == Traceable(heap[ref])
    IN  SelectSeq(data, keeps)

Confirmed == f_pc \in {"returned", "saved"}

\* C25: when run_collection of the framework collector returns, after any
\* number of rejected and restarted rounds, config.bosch_priority is true if
\* and only if 'BOSCH' is in config.target_brands as chosen in the confirmed
\* round.
C25_PriorityIffBosch ==
    Confirmed =>
        (f_config.bosch_priority <=> <<"B","O","S","C","H">> \in Range(f_config.target_brands))

\* The collect_regional_data calls in the log.
RegionalCalls == {i \in 1..Len(calls) : calls[i].call = "collect_regional_data"}

\* The data collector has made the collect_* calls of its run.
Gathered_ == c_pc \in {"collected", "deduplicated", "validated", "returned", "summarized"}

\* The configuration the data collector loaded is one the framework collector
\* wrote, and the user chose the nationwide option in it.
NationwideChosen == config # EmptyDict /\ config.geographic_scope = scope_options[<<"1">>]

\* C26: run_collection collects regional data exactly when the configured
\* geographic scope is not nationwide.  For a configuration written by the
\* framework collector in which the user chose the nationwide option, no
\* regional collection is made; for every regional choice exactly one is
\* made, as the last call, after the brand, policy and recall collections.
C26_RegionalIffNotNationwide ==
    (Gathered_ /\ config # EmptyDict) =>
        IF NationwideChosen
        THEN RegionalCalls = {}
        ELSE /\ RegionalCalls = {Len(calls)}
             /\ calls[Len(calls)].argument = config.geographic_scope
             /\ calls[Len(calls) - 1].call = "collect_recall_data"
             /\ calls[Len(calls) - 2].call = "collect_policy_data"
             /\ \A i \in 1..(Len(calls) - 3) : calls[i].call = "collect_brand_data"

\* The urls and the keyword arguments collect_from_firecrawl is applied to.
FirecrawlUrls ==
    [i \in 1..Len(create_default_config(0)) |-> create_default_config(0)[i].url]

FirecrawlKeywords ==
    {NoKeywords, Keywords(<< >>), Keywords(<<<<"B","O","S","C","H">>>>),
     Keywords(<<<<"E","n","e","r","g","y">>, <<"c","a","r","r","i","e","r">>>>), Keywords(<<<<"m","i","d","e","a">>>>)}

\* Some keyword of a given list occurs in the url, case-insensitively.
KeywordInUrl(url, keywords) ==
    /\ keywords # NoKeywords
    /\ \E k \in Range(keywords.list) : contains(lower(k), lower(url))

\* The brands of the framework collector, and one in another case.
BrandsAsked == {all_brands[c] : c \in DOMAIN all_brands} \cup {<<"b","o","s","c","h">>}

\* C28: collect_from_firecrawl yields a data point for a url only when a
\* keywords list is given and some keyword occurs case-insensitively in the
\* url; called without keywords, as collect_brand_data calls it, it returns
\* [] for every list of urls.  So collect_brand_data(brand) consists of the
\* web-search data points alone, one per query, four per brand, and each
\* carries metadata.bosch_priority = True exactly when brand == 'BOSCH'.
C28_BrandDataIsWebSearch ==
    /\ \A keywords \in FirecrawlKeywords :
          LET matches(url) == KeywordInUrl(url, keywords)
              found == collect_from_firecrawl(FirecrawlUrls, keywords, clock)
          IN  [i \in 1..Len(found) |-> found[i].url] = SelectSeq(FirecrawlUrls, matches)
    /\ \A n \in 0..Len(FirecrawlUrls) :
          collect_from_firecrawl(SubSeq(FirecrawlUrls, 1, n), NoKeywords, clock) = << >>
    /\ \A brand \in BrandsAsked :
          LET found == collect_brand_data(create_default_config(0), brand, clock)
          IN  /\ Len(found) = 4
              /\ \A k \in 1..4 :
                    /\ found[k].metadata.collection_method = "web_search"
                    /\ found[k].metadata.query = brand_queries(brand)[k]
                    /\ BoschPriority(found[k]) <=> brand = <<"B","O","S","C","H">>
    /\ \A i \in 1..Len(calls) :
          calls[i].call = "collect_brand_data" =>
              /\ calls[i].items = 4
              /\ 4 * i <= Len(objs)
              /\ \A k \in (4 * i - 3)..(4 * i) :
                    /\ objs[k].metadata.collection_method = "web_search"
                    /\ BoschPriority(objs[k]) <=> calls[i].argument = <<"B","O","S","C","H">>

\* C28 witness: run_collection has collected the data of Carrier and of
\* BOSCH: eight web-search data points, the last four marked bosch_priority.
C28_Witness ==
    /\ Len(calls) = 2
    /\ calls[1].argument = <<"C","a","r","r","i","e","r">> /\ calls[2].argument = <<"B","O","S","C","H">>
    /\ Len(objs) = 8
    /\ ~ BoschPriority(objs[4]) /\ BoschPriority(objs[5])

\* What an analyzer built alone over data_points holds after its constructor,
\* and after its run_deep_analysis.
AloneInScope == filter_bosch_data(data_points)

AloneResult == run_deep_analysis(AloneInScope)

\* The state the analyzer a writes.
StateOf(a) == <<a_pc[a], bosch_data[a], analysis_result[a], built[a]>>

\* The numbers of the run_deep_analysis calls in which the dicts, bucket
\* lists and entries that the analyzer a holds were built.
BuiltIn(a) == {built[a].topics[n].built_in : n \in 1..Len(built[a].topics)}

\* C22: two analyzers built over the same record list, their filter and
\* analyze_* steps in any interleaving.  Each produces what it produces when
\* run alone: the same in-scope list, the same result of every analyze_* call,
\* the same analysis_result.  The buckets and entries of one are built in its
\* own run_deep_analysis call, so none is shared between the two results.
\* And no step of one writes state of the other, or the shared record list.
C22_IndependentInvocations ==
    /\ [](\A a \in Analyzers :
             /\ a_pc[a] # "absent" => bosch_data[a] = AloneInScope
             /\ BuiltIn(a) \subseteq {built[a].run}
             /\ \A b \in Analyzers \ {a} : BuiltIn(a) \cap BuiltIn(b) = {})
    /\ [][/\ data_points' = data_points
          /\ \A a \in Analyzers :
                /\ StateOf(a)' # StateOf(a) =>
                       \A b \in Analyzers \ {a} : StateOf(b)' = StateOf(b)
                /\ Len(built'[a].topics) > Len(built[a].topics) =>
                       /\ SubSeq(built'[a].topics, 1, Len(built[a].topics))
                              = built[a].topics
                       /\ built'[a].topics[Len(built'[a].topics)].value
                              = analyze(Len(built'[a].topics), AloneInScope)
                /\ analysis_result'[a] # analysis_result[a] =>
                       analysis_result'[a] = AloneResult
                /\ (a_pc[a] = "analyzing" /\ a_pc'[a] = "idle") =>
                       analysis_result'[a] = AloneResult]_vars

\* C22 witness: both analyzers, built over the same two in-scope records, are
\* in the middle of run_deep_analysis: the first to begin has made three of
\* its analyze_* calls, the second five.
C22_Witness ==
    /\ a_pc[1] = "analyzing" /\ a_pc[2] = "analyzing"
    /\ built[1].run = 1 /\ built[2].run = 2
    /\ Len(built[1].topics) = 3 /\ Len(built[2].topics) = 5
    /\ Len(bosch_data[1]) = 2
    /\ Len(built[2].topics[1].value["new_product_launches"]) >= 1
====
